---- MODULE Spec2Model ----
(***************************************************************************)
(* The Last Jump: the weekly game loop of js/game.js.                      *)
(*                                                                         *)
(* The world state is Game.state (week, action budget, flags, completed    *)
(* events, event schedule, storylines, pursuits).  Content records         *)
(* (Events, Stories, Actions, Pursuits) are data; the records used here    *)
(* are the ones the test runner installs, next to the shipped intro story. *)
(* Stats, skills, characters and objects are not read by any condition of  *)
(* this content and are left out of this state; saving and loading are not *)
(* part of this specification.                                             *)
(*                                                                         *)
(* Game.random() returns k/RandDen for k in 0..RandDen-1; probabilities    *)
(* are numerators over RandDen as well, so every comparison of the source  *)
(* is an exact integer comparison.                                         *)
(***************************************************************************)
EXTENDS Integers, Sequences, FiniteSets, TLC

VARIABLES state, screen, creation, obs

vars == <<state, screen, creation, obs>>

(***************************************************************************)
(* Bounds                                                                  *)
(***************************************************************************)
RandDen == 5
MaxWeek == 2
StatCap == 100
MaxObjects == 3
MaxEvals == 2
MaxHours == 20
MaxSkill == 20
MaxMargin == 30
MaxIds == 3
MaxSaves == 1
MaxEntities == 5

(***************************************************************************)
(* Program constants                                                       *)
(***************************************************************************)
actionsPerPeriod == 3
FREE_HOURS == 50
HOURS_PER_ACTION == 20

Draws == 0 .. (RandDen - 1)
Undefined == -1
None == "none"

(***************************************************************************)
(* Conditions (ConditionChecker.check): a record of clauses, all of which  *)
(* must hold; an absent predicate is always true.                          *)
(***************************************************************************)
NoCond ==
    [defined |-> FALSE, inChapter |-> {}, hasFlag |-> {}, notFlag |-> {},
     weekDivisibleBy |-> 0]

InChapter(s, c) == [NoCond EXCEPT !.defined = TRUE, !.inChapter = {<<s, c>>}]
HasFlag(f) == [NoCond EXCEPT !.defined = TRUE, !.hasFlag = {f}]
WeekDivisibleBy(n) == [NoCond EXCEPT !.defined = TRUE, !.weekDivisibleBy = n]

ConditionCheck(c, g) ==
    \/ ~c.defined
    \/ /\ \A sc \in c.inChapter :
            /\ g.storylines[sc[1]].present
            /\ g.storylines[sc[1]].currentChapter = sc[2]
       /\ \A f \in c.hasFlag : f \in g.flags
       /\ \A f \in c.notFlag : f \notin g.flags
       /\ (c.weekDivisibleBy # 0 => g.week % c.weekDivisibleBy = 0)

(***************************************************************************)
(* Content: effects are <<op, a, b>> records.                              *)
(***************************************************************************)
Eff(op, a, b) == [op |-> op, a |-> a, b |-> b]

EventOrder == <<"test_event", "late_event", "billDue", "zero_event">>
EventIds == {EventOrder[i] : i \in 1 .. Len(EventOrder)}

Events ==
    [id \in EventIds |->
        CASE id = "test_event" ->
               [probability |-> 2, priority |-> Undefined, conditions |-> NoCond,
                effects |-> <<>>, onSuperseded |-> None]
          [] id = "late_event" ->
               [probability |-> RandDen - 1, priority |-> Undefined,
                conditions |-> HasFlag("win"),
                effects |-> <<>>, onSuperseded |-> "remove"]
          [] id = "billDue" ->
               [probability |-> RandDen, priority |-> 80,
                conditions |-> WeekDivisibleBy(2),
                effects |-> <<>>, onSuperseded |-> "reschedule"]
          [] id = "zero_event" ->
               [probability |-> 0, priority |-> 2,
                conditions |-> HasFlag("lose"),
                effects |-> <<>>, onSuperseded |-> "reschedule"]]

NoChapter ==
    [advanceWhen |-> NoCond, advanceTo |-> None, failWhen |-> NoCond,
     failTo |-> None, objectiveResult |-> None, successEffects |-> <<>>,
     failureEffects |-> <<>>]

StoryOrder == <<"intro", "testObj">>
StoryIds == {StoryOrder[i] : i \in 1 .. Len(StoryOrder)}

Stories ==
    [s \in StoryIds |->
        CASE s = "intro" ->
               [initialChapter |-> "start",
                chapters |->
                  [c \in {"start", "awakening"} |->
                     IF c = "start"
                     THEN [NoChapter EXCEPT
                             !.advanceWhen = HasFlag("character_created"),
                             !.advanceTo = "awakening"]
                     ELSE NoChapter]]
          [] s = "testObj" ->
               [initialChapter |-> "active",
                chapters |->
                  [c \in {"active", "success", "failure"} |->
                     CASE c = "active" ->
                            [NoChapter EXCEPT
                               !.advanceWhen = HasFlag("win"),
                               !.advanceTo = "success",
                               !.failWhen = HasFlag("lose"),
                               !.failTo = "failure"]
                       [] c = "success" ->
                            [NoChapter EXCEPT
                               !.objectiveResult = "success",
                               !.successEffects =
                                  <<Eff("setFlag", "reward", None)>>]
                       [] c = "failure" ->
                            [NoChapter EXCEPT
                               !.objectiveResult = "failure",
                               !.failureEffects =
                                  <<Eff("setFlag", "penalty", None)>>]]]]

PursuitIds == {"medium_job", "routine1"}

Pursuits ==
    [p \in PursuitIds |->
        IF p = "medium_job"
        THEN [configType |-> "action", hoursCost |-> 62, default |-> FALSE,
              weeklyEffects |-> <<>>, exitConditions |-> HasFlag("fired"),
              exitEffects |-> <<Eff("setFlag", "severance", None),
                                Eff("modifyStat", "money", 10)>>]
        ELSE [configType |-> "toggle", hoursCost |-> 10, default |-> FALSE,
              weeklyEffects |-> <<Eff("modifyStat", "money", 10)>>,
              exitConditions |-> NoCond,
              exitEffects |-> <<>>]]

ActionIds ==
    {"beginJourney", "getAJob", "acceptQuest", "doWin", "doLose",
     "rewindQuest"}

Awake == InChapter("intro", "awakening")

Actions ==
    [a \in ActionIds |->
        CASE a = "beginJourney" ->
               [actionCost |-> 0, conditions |-> InChapter("intro", "start"),
                handler |-> "startCharacterCreation", effects |-> <<>>]
          [] a = "getAJob" ->
               [actionCost |-> 1, conditions |-> Awake, handler |-> None,
                effects |-> <<Eff("startPursuit", "medium_job", None)>>]
          [] a = "acceptQuest" ->
               [actionCost |-> 0, conditions |-> Awake, handler |-> None,
                effects |-> <<Eff("enterStory", "testObj", None)>>]
          [] a = "doWin" ->
               [actionCost |-> 1,
                conditions |-> [Awake EXCEPT !.notFlag = {"win"}],
                handler |-> None,
                effects |-> <<Eff("setFlag", "win", None)>>]
          [] a = "doLose" ->
               [actionCost |-> 1,
                conditions |-> [Awake EXCEPT !.notFlag = {"lose"}],
                handler |-> None,
                effects |-> <<Eff("setFlag", "lose", None)>>]
          [] a = "rewindQuest" ->
               [actionCost |-> 1,
                conditions |-> InChapter("testObj", "success"),
                handler |-> None,
                effects |-> <<Eff("clearFlag", "win", None),
                              Eff("advanceChapter", "testObj", "active")>>]]

AsyncHandlers == {"startCharacterCreation", "startAcquaintanceCreation"}

HandlerFlag(h) ==
    IF h = "startCharacterCreation" THEN "character_created"
    ELSE "rememberedAcquaintance"

\* CreationChoiceSets: each set holds two choices, none filtered out while
\* jumpCount is 0.
AvailableChoices(handler) == 2

(***************************************************************************)
(* State primitives                                                        *)
(***************************************************************************)
NoStoryline ==
    [present |-> FALSE, currentChapter |-> None, enteredChapter |-> FALSE,
     completed |-> FALSE, result |-> None]

NoPursuit == [present |-> FALSE, active |-> FALSE, enabled |-> FALSE]

NoEntry ==
    [present |-> FALSE, passed |-> FALSE, triggerAt |-> 0,
     triggered |-> FALSE, missed |-> FALSE]

\* { passed: false }
FailedEntry == [NoEntry EXCEPT !.present = TRUE]

EmptySchedule == [id \in EventIds |-> NoEntry]

setFlag(g, flag, value) ==
    [g EXCEPT !.flags = IF value THEN @ \cup {flag} ELSE @ \ {flag}]

enterStory(g, storyId) ==
    IF storyId \notin StoryIds THEN g
    ELSE [g EXCEPT !.storylines[storyId] =
            [present |-> TRUE,
             currentChapter |-> Stories[storyId].initialChapter,
             enteredChapter |-> TRUE, completed |-> FALSE, result |-> None]]

advanceChapter(g, storyId, chapterId) ==
    IF storyId \notin StoryIds \/ ~g.storylines[storyId].present THEN g
    ELSE [g EXCEPT !.storylines[storyId].currentChapter = chapterId,
                   !.storylines[storyId].enteredChapter = TRUE]

activatePursuit(g, pursuitId) ==
    IF pursuitId \notin PursuitIds THEN g
    ELSE [g EXCEPT !.pursuits[pursuitId] =
            [present |-> TRUE, active |-> TRUE,
             enabled |-> IF Pursuits[pursuitId].configType = "toggle"
                         THEN Pursuits[pursuitId].default ELSE FALSE]]

(***************************************************************************)
(* Stats: the registry and Game.getStat / modifyStat / setStat.  A game    *)
(* state that carries no characters has no stats to change.                *)
(***************************************************************************)
Max(a, b) == IF a > b THEN a ELSE b

StatIds == {"health", "money"}

\* StatDefinitions; max: null is hasMax = FALSE
StatDefinitions ==
    [s \in StatIds |->
        IF s = "health"
        THEN [default |-> 50, hasMin |-> TRUE, min |-> 0,
              hasMax |-> TRUE, max |-> 200]
        ELSE [default |-> 50, hasMin |-> TRUE, min |-> 0,
              hasMax |-> FALSE, max |-> 0]]

\* the player, one other character, and an id no character has
playerId == "char_1"
CharIds == {"char_1", "char_2"}
AnyCharIds == CharIds \cup {"char_9"}

Min(a, b) == IF a < b THEN a ELSE b

\* modifyStat without the clamp to the registry's bounds
modifyStat_unclamped(g, charId, statName, delta) ==
    IF charId \notin CharIds THEN g
    ELSE [g EXCEPT !.characters[charId].stats[statName] = @ + delta]

modifyStat(g, charId, statName, delta) ==
    IF "characters" \notin DOMAIN g \/ charId \notin CharIds THEN g
    ELSE LET def == StatDefinitions[statName]
             v0 == g.characters[charId].stats[statName] + delta
             v1 == IF def.hasMin THEN Max(def.min, v0) ELSE v0
             v2 == IF def.hasMax THEN Min(def.max, v1) ELSE v1
         IN  [g EXCEPT !.characters[charId].stats[statName] = v2]

setStat(g, charId, statName, value) ==
    IF charId \notin CharIds THEN g
    ELSE LET def == StatDefinitions[statName]
             v1 == IF def.hasMin THEN Max(def.min, value) ELSE value
             v2 == IF def.hasMax THEN Min(def.max, v1) ELSE v1
         IN  [g EXCEPT !.characters[charId].stats[statName] = v2]

getStat(g, charId, statName) ==
    IF charId \notin CharIds THEN 0 ELSE g.characters[charId].stats[statName]

(***************************************************************************)
(* EffectExecutor.execute and PursuitManager.deactivatePursuit (which runs *)
(* exit effects through the executor).                                     *)
(***************************************************************************)
RECURSIVE ExecuteFrom(_, _, _)
RECURSIVE deactivatePursuit(_, _)

ApplyEffect(e, g) ==
    CASE e.op = "setFlag" -> setFlag(g, e.a, TRUE)
      [] e.op = "clearFlag" -> setFlag(g, e.a, FALSE)
      [] e.op = "advanceChapter" -> advanceChapter(g, e.a, e.b)
      [] e.op = "enterStory" -> enterStory(g, e.a)
      [] e.op = "startPursuit" -> activatePursuit(g, e.a)
      [] e.op = "endPursuit" -> deactivatePursuit(g, e.a)
      [] e.op = "modifyStat" -> modifyStat(g, playerId, e.a, e.b)
      [] OTHER -> g

ExecuteFrom(i, effects, g) ==
    IF i > Len(effects) THEN g
    ELSE ExecuteFrom(i + 1, effects, ApplyEffect(effects[i], g))

Execute(effects, g) == ExecuteFrom(1, effects, g)

\* deactivatePursuit without the early return for a pursuit that is not
\* active
deactivatePursuit_noGuard(g, pursuitId) ==
    IF pursuitId \notin PursuitIds \/ ~g.pursuits[pursuitId].present
    THEN g
    ELSE [Execute(Pursuits[pursuitId].exitEffects, g)
            EXCEPT !.pursuits[pursuitId].active = FALSE]

deactivatePursuit(g, pursuitId) ==
    IF pursuitId \notin PursuitIds
       \/ ~g.pursuits[pursuitId].present
       \/ ~g.pursuits[pursuitId].active
    THEN g
    ELSE [Execute(Pursuits[pursuitId].exitEffects, g)
            EXCEPT !.pursuits[pursuitId].active = FALSE]

(***************************************************************************)
(* Pursuit budget                                                          *)
(***************************************************************************)
getPursuitHoursCost(g, pursuitId) ==
    LET pursuit == Pursuits[pursuitId]
        st == g.pursuits[pursuitId]
    IN  IF ~st.present \/ ~st.active THEN 0
        ELSE CASE pursuit.configType = "action" -> pursuit.hoursCost
               [] pursuit.configType = "toggle" ->
                    IF ~st.enabled THEN 0 ELSE pursuit.hoursCost
               [] OTHER -> 0

RECURSIVE SumHours(_, _)
SumHours(g, ids) ==
    IF ids = {} THEN 0
    ELSE LET p == CHOOSE x \in ids : TRUE
         IN  getPursuitHoursCost(g, p) + SumHours(g, ids \ {p})

calculatePursuitHours(g) ==
    SumHours(g, {p \in PursuitIds : g.pursuits[p].present /\ g.pursuits[p].active})

\* effectiveActions = max(0, base - excess / HOURS_PER_ACTION), kept as a
\* numerator over HOURS_PER_ACTION; bonusChance = bonusNum / HOURS_PER_ACTION.
\* EffectiveActions with hours below the free budget counted as credit
EffectiveActions_credit(pursuitHours) ==
    LET excessHours == pursuitHours - FREE_HOURS
        effNum == Max(0, actionsPerPeriod * HOURS_PER_ACTION - excessHours)
    IN  [guaranteed |-> effNum \div HOURS_PER_ACTION,
         bonusNum |-> effNum % HOURS_PER_ACTION]

\* the arithmetic of calculateEffectiveActions on a total of hours
EffectiveActions(pursuitHours) ==
    LET excessHours == Max(0, pursuitHours - FREE_HOURS)
        effNum == Max(0, actionsPerPeriod * HOURS_PER_ACTION - excessHours)
    IN  [guaranteed |-> effNum \div HOURS_PER_ACTION,
         bonusNum |-> effNum % HOURS_PER_ACTION]

calculateEffectiveActions(g) == EffectiveActions(calculatePursuitHours(g))

RECURSIVE CheckExitFrom(_, _)
CheckExitFrom(ids, g) ==
    IF ids = {} THEN g
    ELSE LET p == CHOOSE x \in ids : TRUE
             g1 == IF /\ g.pursuits[p].present /\ g.pursuits[p].active
                      /\ Pursuits[p].configType = "action"
                      /\ Pursuits[p].exitConditions.defined
                      /\ ConditionCheck(Pursuits[p].exitConditions, g)
                   THEN deactivatePursuit(g, p) ELSE g
         IN  CheckExitFrom(ids \ {p}, g1)

checkExitConditions(g) == CheckExitFrom(PursuitIds, g)

RECURSIVE WeeklyFrom(_, _)
WeeklyFrom(ids, g) ==
    IF ids = {} THEN g
    ELSE LET p == CHOOSE x \in ids : TRUE
             st == g.pursuits[p]
             effects ==
                IF ~st.present \/ ~st.active THEN <<>>
                ELSE CASE Pursuits[p].configType = "action" ->
                            Pursuits[p].weeklyEffects
                       [] Pursuits[p].configType = "toggle" ->
                            IF st.enabled THEN Pursuits[p].weeklyEffects
                            ELSE <<>>
                       [] OTHER -> <<>>
         IN  WeeklyFrom(ids \ {p}, Execute(effects, g))

processWeeklyEffects(g) == WeeklyFrom(PursuitIds, g)

(***************************************************************************)
(* Event scheduler                                                         *)
(***************************************************************************)
\* used / (weekStartActions + 1), kept as numerator and denominator
getWeekProgress(g) ==
    [num |-> g.weekStartActions - g.actionsRemaining,
     den |-> g.weekStartActions + 1]

\* !event.probability
ProbFalsy(p) == p = Undefined \/ p = 0

\* event.probability && event.probability < 1
IsScheduled(p) == ~ProbFalsy(p) /\ p < RandDen

\* event.priority || 0
PriorityOf(id) ==
    IF Events[id].priority = Undefined THEN 0 ELSE Events[id].priority

\* NeedsRoll with a failed roll tried again at the next evaluation
NeedsRoll_retry(id, sched, g) ==
    /\ ~sched[id].present \/ ~sched[id].passed
    /\ id \notin g.completedEvents
    /\ ConditionCheck(Events[id].conditions, g)
    /\ ~(ProbFalsy(Events[id].probability) \/ Events[id].probability >= RandDen)

\* the guards of the scheduling loop: not yet scheduled, not completed,
\* conditions hold, probability below 1
NeedsRoll(id, sched, g) ==
    /\ ~sched[id].present
    /\ id \notin g.completedEvents
    /\ ConditionCheck(Events[id].conditions, g)
    /\ ~(ProbFalsy(Events[id].probability) \/ Events[id].probability >= RandDen)

\* one roll r against the probability and, if it passes, a trigger draw t
RollEntry(id, r, t, progress) ==
    IF r > Events[id].probability THEN FailedEntry
    ELSE [present |-> TRUE, passed |-> TRUE, triggerAt |-> t,
          triggered |-> FALSE,
          missed |-> t * progress.den < progress.num * RandDen]

\* the entries the two draws can produce
Rolls(id, progress) == {RollEntry(id, r, t, progress) : r \in Draws, t \in Draws}

RECURSIVE ScheduleFrom(_, _, _)
ScheduleFrom(i, sched, g) ==
    IF i > Len(EventOrder) THEN {sched}
    ELSE LET id == EventOrder[i]
         IN  IF ~NeedsRoll(id, sched, g) THEN ScheduleFrom(i + 1, sched, g)
             ELSE UNION {ScheduleFrom(i + 1, [sched EXCEPT ![id] = e], g)
                         : e \in Rolls(id, getWeekProgress(g))}

scheduleNewEvents(g) ==
    {[g EXCEPT !.eventSchedule = s] : s \in ScheduleFrom(1, g.eventSchedule, g)}

\* the guards of the eligibility loop of evaluateEvents
Eligible(id, g) ==
    LET schedule == g.eventSchedule[id]
        progress == getWeekProgress(g)
    IN  /\ id \notin g.completedEvents
        /\ ConditionCheck(Events[id].conditions, g)
        /\ IsScheduled(Events[id].probability) =>
             /\ schedule.present /\ schedule.passed
             /\ ~schedule.missed
             /\ ~(schedule.triggerAt * progress.den > progress.num * RandDen)
             /\ ~schedule.triggered

EligibleSeq(g) == SelectSeq(EventOrder, LAMBDA id : Eligible(id, g))

\* WinnerOf with ties going to the event found last
WinnerOf_lastFound(eligible) ==
    LET best == CHOOSE i \in 1 .. Len(eligible) :
                  /\ \A j \in 1 .. Len(eligible) :
                        PriorityOf(eligible[j]) <= PriorityOf(eligible[i])
                  /\ \A j \in (i + 1) .. Len(eligible) :
                        PriorityOf(eligible[j]) < PriorityOf(eligible[i])
    IN  eligible[best]

\* eligible.sort(by priority, descending)[0]; the sort is stable
WinnerOf(eligible) ==
    LET best == CHOOSE i \in 1 .. Len(eligible) :
                  /\ \A j \in 1 .. Len(eligible) :
                        PriorityOf(eligible[j]) <= PriorityOf(eligible[i])
                  /\ \A j \in 1 .. (i - 1) :
                        PriorityOf(eligible[j]) < PriorityOf(eligible[i])
    IN  eligible[best]

\* FireWinner with superseded 'remove' events left out of completedEvents
FireWinner_keepsSuperseded(g, eligible) ==
    LET winner == WinnerOf(eligible)
        g1 == IF g.eventSchedule[winner].present
              THEN [g EXCEPT !.eventSchedule[winner].triggered = TRUE]
              ELSE g
    IN  Execute(Events[winner].effects, g1)

\* mark the winner triggered, retire superseded 'remove' events, run the winner
FireWinner(g, eligible) ==
    LET winner == WinnerOf(eligible)
        g1 == IF g.eventSchedule[winner].present
              THEN [g EXCEPT !.eventSchedule[winner].triggered = TRUE]
              ELSE g
        removed == {eligible[i] : i \in 1 .. Len(eligible)} \ {winner}
        g2 == [g1 EXCEPT !.completedEvents =
                 @ \cup {id \in removed : Events[id].onSuperseded = "remove"}]
    IN  Execute(Events[winner].effects, g2)

NoEvalLog ==
    [ran |-> FALSE, weekStart |-> FALSE, winner |-> None, condHeld |-> FALSE,
     wasCompleted |-> FALSE, entry |-> NoEntry, num |-> 0, den |-> 1,
     due |-> {}, eligible |-> <<>>, marked |-> {}, holding |-> {}]

\* evaluateEvents after scheduleNewEvents has turned g into gs, with a record
\* of what the evaluation saw
evaluateScheduled(g, gs) ==
     LET eligible == EligibleSeq(gs)
         winner == IF Len(eligible) = 0 THEN None ELSE WinnerOf(eligible)
     IN  [g |-> IF Len(eligible) = 0 THEN gs ELSE FireWinner(gs, eligible),
          log |-> [ran |-> TRUE, weekStart |-> FALSE, winner |-> winner,
                   condHeld |-> winner # None
                                /\ ConditionCheck(Events[winner].conditions, gs),
                   wasCompleted |-> winner \in gs.completedEvents,
                   entry |-> IF winner = None THEN NoEntry
                             ELSE gs.eventSchedule[winner],
                   num |-> getWeekProgress(gs).num,
                   den |-> getWeekProgress(gs).den,
                   due |-> {id \in EventIds :
                              /\ Events[id].probability \in 1 .. (RandDen - 1)
                              /\ id \notin g.completedEvents
                              /\ ConditionCheck(Events[id].conditions, g)},
                   eligible |-> eligible,
                   holding |-> {id \in EventIds :
                                  ConditionCheck(Events[id].conditions, gs)},
                   marked |-> IF winner = None THEN {}
                              ELSE {id \in EventIds :
                                      /\ FireWinner(gs, eligible)
                                            .eventSchedule[id].triggered
                                      /\ ~gs.eventSchedule[id].triggered}]]

\* evaluateEvents: the set of outcomes over the random draws
evaluateEvents(g) == {evaluateScheduled(g, gs) : gs \in scheduleNewEvents(g)}

(***************************************************************************)
(* Storyline state machine                                                 *)
(***************************************************************************)
ChapterOf(g, storyId) ==
    Stories[storyId].chapters[g.storylines[storyId].currentChapter]

HasChapter(g, storyId) ==
    /\ g.storylines[storyId].present
    /\ g.storylines[storyId].currentChapter
          \in DOMAIN Stories[storyId].chapters

\* StepStoryline with the advance condition tested before the fail condition
StepStoryline_advanceFirst(g, storyId) ==
    IF ~HasChapter(g, storyId) THEN g
    ELSE LET chapter == ChapterOf(g, storyId)
         IN  IF /\ chapter.advanceWhen.defined /\ chapter.advanceTo # None
                /\ ConditionCheck(chapter.advanceWhen, g)
             THEN advanceChapter(g, storyId, chapter.advanceTo)
             ELSE IF /\ chapter.failWhen.defined /\ chapter.failTo # None
                     /\ ConditionCheck(chapter.failWhen, g)
                  THEN advanceChapter(g, storyId, chapter.failTo)
                  ELSE g

\* one iteration of the advancement loop of evaluateStorylines
StepStoryline(g, storyId) ==
    IF ~HasChapter(g, storyId) THEN g
    ELSE LET chapter == ChapterOf(g, storyId)
         IN  IF /\ chapter.failWhen.defined /\ chapter.failTo # None
                /\ ConditionCheck(chapter.failWhen, g)
             THEN advanceChapter(g, storyId, chapter.failTo)
             ELSE IF /\ chapter.advanceWhen.defined /\ chapter.advanceTo # None
                     /\ ConditionCheck(chapter.advanceWhen, g)
                  THEN advanceChapter(g, storyId, chapter.advanceTo)
                  ELSE g

NoStoryLog ==
    [failHeld |-> FALSE, advHeld |-> FALSE, from |-> None, to |-> None]

\* what the advancement loop saw for one storyline
StoryLogOf(g, storyId) ==
    IF ~HasChapter(g, storyId) THEN NoStoryLog
    ELSE LET chapter == ChapterOf(g, storyId)
         IN  [failHeld |-> /\ chapter.failWhen.defined /\ chapter.failTo # None
                           /\ ConditionCheck(chapter.failWhen, g),
              advHeld |-> /\ chapter.advanceWhen.defined
                          /\ chapter.advanceTo # None
                          /\ ConditionCheck(chapter.advanceWhen, g),
              from |-> g.storylines[storyId].currentChapter,
              to |-> StepStoryline(g, storyId).storylines[storyId].currentChapter]

RECURSIVE AdvanceFrom(_, _, _)
AdvanceFrom(i, g, log) ==
    IF i > Len(StoryOrder) THEN [g |-> g, log |-> log]
    ELSE AdvanceFrom(i + 1, StepStoryline(g, StoryOrder[i]),
                     [log EXCEPT ![StoryOrder[i]] = StoryLogOf(g, StoryOrder[i])])

\* the guard of one iteration of checkObjectiveCompletions
Completes(g, storyId) ==
    /\ g.storylines[storyId].present
    /\ ~g.storylines[storyId].completed
    /\ HasChapter(g, storyId)
    /\ ChapterOf(g, storyId).objectiveResult # None

CompleteStoryline(g, storyId) ==
    LET chapter == ChapterOf(g, storyId)
        g1 == [g EXCEPT !.storylines[storyId].completed = TRUE,
                        !.storylines[storyId].result = chapter.objectiveResult]
    IN  Execute(IF chapter.objectiveResult = "success"
                THEN chapter.successEffects ELSE chapter.failureEffects, g1)

RECURSIVE CompletionsFrom(_, _, _)
CompletionsFrom(i, g, ran) ==
    IF i > Len(StoryOrder) THEN [g |-> g, ran |-> ran]
    ELSE IF Completes(g, StoryOrder[i])
         THEN CompletionsFrom(i + 1, CompleteStoryline(g, StoryOrder[i]),
                              ran \cup {StoryOrder[i]})
         ELSE CompletionsFrom(i + 1, g, ran)

checkObjectiveCompletions(g) == CompletionsFrom(1, g, {})

\* evaluateStorylines: the new state, what each storyline's advancement saw,
\* and the storylines whose completion effects ran
evaluateStorylines(g) ==
    LET adv == AdvanceFrom(1, g, [s \in StoryIds |-> NoStoryLog])
        done == checkObjectiveCompletions(adv.g)
    IN  [g |-> done.g, log |-> adv.log, ran |-> done.ran]

\* refreshDisplay -> collectNarrativeText clears every enteredChapter marker
refreshDisplay(g) ==
    [g EXCEPT !.storylines =
        [s \in StoryIds |-> [g.storylines[s] EXCEPT !.enteredChapter = FALSE]]]

\* the calls of one run of the game loop, in order
LoopOrder == <<"evaluateEvents", "evaluateStorylines", "refreshDisplay">>

\* continueGameLoop with the storylines evaluated before the events
continueGameLoop_storylinesFirst(g) ==
    {[g |-> refreshDisplay(ev.g), ev |-> ev.log,
      st |-> evaluateStorylines(g).log, ran |-> evaluateStorylines(g).ran,
      input |-> g,
      order |-> <<"evaluateStorylines", "evaluateEvents", "refreshDisplay">>]
     : ev \in evaluateEvents(evaluateStorylines(g).g)}

\* evaluateEvents(); evaluateStorylines(); refreshDisplay()
continueGameLoop(g) ==
    {LET st == evaluateStorylines(ev.g)
     IN  [g |-> refreshDisplay(st.g), ev |-> ev.log, st |-> st.log,
          ran |-> st.ran, input |-> g, order |-> LoopOrder]
     : ev \in evaluateEvents(g)}

(***************************************************************************)
(* Week transitions                                                        *)
(***************************************************************************)
\* the action budget of startWeek: guaranteed, plus one when the bonus
\* chance is positive and a single draw falls below it
WeekBudgets(g) ==
    LET actions == calculateEffectiveActions(g)
    IN  IF actions.bonusNum > 0
        THEN {IF r * HOURS_PER_ACTION < actions.bonusNum * RandDen
              THEN actions.guaranteed + 1 ELSE actions.guaranteed
              : r \in Draws}
        ELSE {actions.guaranteed}

\* ResetWeek with last week's schedule carried over
ResetWeek_keep(g, budget) ==
    [processWeeklyEffects([g EXCEPT !.actionsRemaining = budget])
        EXCEPT !.weekStartActions = budget]

\* the state startWeek hands to evaluateEvents
ResetWeek(g, budget) ==
    [processWeeklyEffects([g EXCEPT !.actionsRemaining = budget])
        EXCEPT !.eventSchedule = EmptySchedule,
               !.weekStartActions = budget]

startWeek(g) ==
    UNION {continueGameLoop(ResetWeek(g, budget)) : budget \in WeekBudgets(g)}

\* endWeek up to the save prompt: exit conditions, then the week counter
\* a variant that leaves the week counter alone
endWeek_sameWeek(g) == checkExitConditions(g)

endWeek(g) == [checkExitConditions(g) EXCEPT !.week = @ + 1]

hasConfigurablePursuits(g) ==
    \E p \in PursuitIds :
        \/ Pursuits[p].configType # "action"
        \/ g.pursuits[p].present /\ g.pursuits[p].active

(***************************************************************************)
(* Observations: what each evaluation saw, kept beside the program state   *)
(* so that properties of a whole turn can be stated on states.             *)
(***************************************************************************)
NoStamp == [ws |-> 0, num |-> 0, den |-> 1]

\* counts are 0, 1 or 2, where 2 stands for "more than once"
Bump(n) == IF n < 2 THEN n + 1 ELSE n

\* the observations after one run `r` of the game loop
Observe(o, r, isWeekStart) ==
    LET ws == IF isWeekStart THEN o.weekStarts + 1 ELSE o.weekStarts
        before == r.input.eventSchedule
    IN  [o EXCEPT
           !.weekStarts = ws,
           !.firedCount =
              [e \in EventIds |->
                 LET base == IF isWeekStart THEN 0 ELSE o.firedCount[e]
                 IN  IF r.ev.winner = e THEN Bump(base) ELSE base],
           !.rolledAt =
              [e \in EventIds |->
                 IF r.g.eventSchedule[e].present /\ ~before[e].present
                 THEN [ws |-> ws, num |-> r.ev.num, den |-> r.ev.den]
                 ELSE IF r.g.eventSchedule[e].present THEN o.rolledAt[e]
                      ELSE NoStamp],
           !.lastEval = [r.ev EXCEPT !.weekStart = isWeekStart],
           !.storyLog = r.st,
           !.order = r.order,
           !.completionRuns =
              [s \in StoryIds |->
                 IF s \in r.ran THEN Bump(o.completionRuns[s])
                 ELSE o.completionRuns[s]],
           !.loopRuns = IF isWeekStart THEN o.loopRuns ELSE o.loopRuns + 1]

(***************************************************************************)
(* Init: the state after Game.init()                                       *)
(***************************************************************************)
InitialState ==
    LET g0 == [week |-> 1,
               actionsRemaining |-> actionsPerPeriod,
               weekStartActions |-> actionsPerPeriod,
               flags |-> {},
               completedEvents |-> {},
               eventSchedule |-> EmptySchedule,
               storylines |-> [s \in StoryIds |-> NoStoryline],
               pursuits |-> [p \in PursuitIds |-> NoPursuit]]
        \* PursuitManager.initDefaults
        g1 == [g0 EXCEPT !.pursuits =
                 [p \in PursuitIds |->
                    IF Pursuits[p].configType # "action"
                    THEN activatePursuit(g0, p).pursuits[p] ELSE NoPursuit]]
    IN  refreshDisplay(evaluateStorylines(enterStory(g1, "intro")).g)

NoCreation == [active |-> FALSE, index |-> 0, count |-> 0, onComplete |-> None]

Init ==
    /\ state = InitialState
    /\ screen = "actions"
    /\ creation = NoCreation
    /\ obs = [weekStarts |-> 0,
              firedCount |-> [e \in EventIds |-> 0],
              rolledAt |-> [e \in EventIds |-> NoStamp],
              lastEval |-> NoEvalLog,
              storyLog |-> [s \in StoryIds |-> NoStoryLog],
              completionRuns |-> [s \in StoryIds |-> 0],
              loopRuns |-> 0,
              acting |-> None,
              \* Game.init: enterStory, evaluateStorylines, refreshDisplay
              order |-> <<"evaluateStorylines", "refreshDisplay">>]

(***************************************************************************)
(* Actions                                                                 *)
(***************************************************************************)
\* Clickable without renderActions' btn.disabled
Clickable_neverDisabled(a) ==
    /\ screen = "actions"
    /\ ConditionCheck(Actions[a].conditions, state)

\* a rendered action button that is not disabled
Clickable(a) ==
    /\ screen = "actions"
    /\ ConditionCheck(Actions[a].conditions, state)
    /\ Actions[a].actionCost # 0 =>
          state.actionsRemaining >= Actions[a].actionCost

\* Game.executeAction with a handler that is not interactive, or none
ExecuteAction(a) ==
    /\ Clickable(a)
    /\ Actions[a].handler \notin AsyncHandlers
    /\ LET g0 == [state EXCEPT !.actionsRemaining = @ - Actions[a].actionCost]
           g1 == Execute(Actions[a].effects, g0)
       IN  \E r \in continueGameLoop(g1) :
              /\ state' = r.g
              /\ obs' = Observe([obs EXCEPT !.loopRuns = 0, !.acting = a],
                                r, FALSE)
    /\ UNCHANGED <<screen, creation>>

\* ExecuteAsyncAction without the early return on { async: true }: the game
\* loop runs while the creation flow is still open
ExecuteAsyncAction_resumes(a) ==
    /\ Clickable(a)
    /\ Actions[a].handler \in AsyncHandlers
    /\ AvailableChoices(Actions[a].handler) > 0
    /\ LET g0 == [state EXCEPT !.actionsRemaining = @ - Actions[a].actionCost]
       IN  \E r \in continueGameLoop(g0) :
              /\ state' = r.g
              /\ obs' = Observe([obs EXCEPT !.loopRuns = 0, !.acting = a],
                                r, FALSE)
    /\ creation' = [active |-> TRUE, index |-> 0,
                    count |-> AvailableChoices(Actions[a].handler),
                    onComplete |-> Actions[a].handler]
    /\ screen' = "creation"

\* Game.executeAction with startCharacterCreation / startAcquaintanceCreation:
\* CharacterCreation.start presents the first choice and the handler returns
\* { async: true, skipEffects: true }
ExecuteAsyncAction(a) ==
    /\ Clickable(a)
    /\ Actions[a].handler \in AsyncHandlers
    /\ AvailableChoices(Actions[a].handler) > 0
    /\ state' = [state EXCEPT !.actionsRemaining = @ - Actions[a].actionCost]
    /\ creation' = [active |-> TRUE, index |-> 0,
                    count |-> AvailableChoices(Actions[a].handler),
                    onComplete |-> Actions[a].handler]
    /\ screen' = "creation"
    /\ obs' = [obs EXCEPT !.loopRuns = 0, !.acting = a]

\* CharacterCreation.selectOption on a choice that is not the last one
SelectOption ==
    /\ screen = "creation"
    /\ creation.active
    /\ creation.index + 1 < creation.count
    /\ creation' = [creation EXCEPT !.index = @ + 1]
    /\ UNCHANGED <<state, screen, obs>>

\* CharacterCreation.selectOption on the last choice: applyImpactsAndFinish,
\* finish, the handler's onComplete (set the flag, resume the game loop), reset
FinishCreation ==
    /\ screen = "creation"
    /\ creation.active
    /\ creation.index + 1 >= creation.count
    /\ LET g1 == setFlag(state, HandlerFlag(creation.onComplete), TRUE)
       IN  \E r \in continueGameLoop(g1) :
              /\ state' = r.g
              /\ obs' = Observe(obs, r, FALSE)
    /\ creation' = NoCreation
    /\ screen' = "actions"

\* the End week button, shown when no actions remain
EndWeek ==
    /\ screen = "actions"
    /\ state.actionsRemaining = 0
    /\ state.week < MaxWeek
    /\ state' = endWeek(state)
    /\ screen' = "savePrompt"
    /\ UNCHANGED <<creation, obs>>

\* the save prompt's Continue: showPursuitUI
DismissSavePrompt ==
    /\ screen = "savePrompt"
    /\ hasConfigurablePursuits(state)
    /\ screen' = "pursuitUI"
    /\ UNCHANGED <<state, creation, obs>>

\* a toggle checkbox of the pursuit panel
TogglePursuit(p) ==
    /\ screen = "pursuitUI"
    /\ Pursuits[p].configType = "toggle"
    /\ state.pursuits[p].present
    /\ state' = [state EXCEPT !.pursuits[p].enabled = ~@]
    /\ UNCHANGED <<screen, creation, obs>>

\* the pursuit panel's Start Week button: pendingConfirm -> startWeek
ConfirmPursuits ==
    /\ screen = "pursuitUI"
    /\ \E r \in startWeek(state) :
          /\ state' = r.g
          /\ obs' = Observe(obs, r, TRUE)
    /\ screen' = "actions"
    /\ UNCHANGED creation

Next ==
    \/ \E a \in ActionIds : ExecuteAction(a)
    \/ \E a \in ActionIds : ExecuteAsyncAction(a)
    \/ SelectOption
    \/ FinishCreation
    \/ EndWeek
    \/ DismissSavePrompt
    \/ \E p \in PursuitIds : TogglePursuit(p)
    \/ ConfirmPursuits

Spec == Init /\ [][Next]_vars

(***************************************************************************)
(* Character stats: Game.modifyStat / Game.setStat and their callers.  In  *)
(* this specification `state` holds the characters' stat maps and `obs`    *)
(* the last requested change and the side on which it left the range.      *)
(***************************************************************************)
\* the deltas and values the content asks for
StatDeltas == {-120, 50}
StatValues == {-20, 260}
WeeklyCaps == {100}
Rents == {50}

\* a weekly effect { modifyStat: [stat, delta], max: cap }; no max is
\* hasMax = FALSE
WeeklyEffect(statName, delta, hasMax, cap) ==
    [stat |-> statName, delta |-> delta, hasMax |-> hasMax, max |-> cap]

\* the first loop of executeWeeklyEffects: every effect is read against the
\* stats as they are when the call starts; an effect at or over its max is
\* dropped, the others get their capped delta
ProcessEffect(g, e) ==
    LET currentValue == getStat(g, playerId, e.stat)
    IN  IF e.hasMax /\ currentValue >= e.max
        THEN [skip |-> TRUE, stat |-> e.stat, delta |-> 0]
        ELSE [skip |-> FALSE, stat |-> e.stat,
              delta |-> IF e.hasMax THEN Min(e.delta, e.max - currentValue)
                        ELSE e.delta]

\* the second step, EffectExecutor.execute(processedEffects): the effects
\* that were kept run in order; the log keeps, for every effect of the
\* list, the stat's value when its turn comes and after it
RECURSIVE RunProcessed(_, _, _, _)
RunProcessed(i, processed, g, log) ==
    IF i > Len(processed) THEN [g |-> g, log |-> log]
    ELSE LET e == processed[i]
             g1 == IF e.skip THEN g
                   ELSE modifyStat(g, playerId, e.stat, e.delta)
         IN  RunProcessed(i + 1, processed, g1,
                 Append(log, [skipped |-> e.skip,
                              before |-> getStat(g, playerId, e.stat),
                              after |-> getStat(g1, playerId, e.stat)]))

executeWeeklyEffects(g, effects) ==
    RunProcessed(1, [i \in 1..Len(effects) |-> ProcessEffect(g, effects[i])],
                 g, <<>>)

\* executeWeeklyEffects on the single effect
\* { modifyStat: [stat, delta], max: cap }
weeklyStatEffect(g, statName, delta, cap) ==
    executeWeeklyEffects(g, <<WeeklyEffect(statName, delta, TRUE, cap)>>).g

\* processRentPayments for one home: pay when the money suffices
payRent(g, rent) ==
    IF getStat(g, playerId, "money") >= rent
    THEN modifyStat(g, playerId, "money", 0 - rent)
    ELSE g

\* Game.createCharacter: every registered stat at its default
InitStats ==
    /\ state = [characters |->
                  [c \in CharIds |->
                     [stats |-> [s \in StatIds |-> StatDefinitions[s].default]]]]
    /\ screen = "stats"
    /\ creation = NoCreation
    /\ obs = [char |-> None, stat |-> None, asked |-> "inside"]

\* where a requested value lies relative to the registry's range
Asked(statName, raw) ==
    LET def == StatDefinitions[statName]
    IN  IF def.hasMin /\ raw < def.min THEN "below"
        ELSE IF def.hasMax /\ raw > def.max THEN "above"
        ELSE "inside"

\* the stat a change may reach while the model stays finite
WithinCap(g) ==
    \A c \in CharIds, s \in StatIds :
        StatDefinitions[s].hasMax \/ g.characters[c].stats[s] <= StatCap

\* modifyStat, modifyCharStat effects and direct calls
ModifyStat(c, s, d) ==
    /\ WithinCap(modifyStat(state, c, s, d))
    /\ state' = modifyStat(state, c, s, d)
    /\ obs' = [char |-> c, stat |-> s, asked |-> Asked(s, getStat(state, c, s) + d)]
    /\ UNCHANGED <<screen, creation>>

\* setStat effects and direct calls
SetStat(c, s, v) ==
    /\ WithinCap(setStat(state, c, s, v))
    /\ state' = setStat(state, c, s, v)
    /\ obs' = [char |-> c, stat |-> s, asked |-> Asked(s, v)]
    /\ UNCHANGED <<screen, creation>>

WeeklyStatEffect(s, d, cap) ==
    /\ WithinCap(weeklyStatEffect(state, s, d, cap))
    /\ state' = weeklyStatEffect(state, s, d, cap)
    /\ obs' = [char |-> playerId, stat |-> s,
               asked |-> Asked(s, getStat(state, playerId, s) + d)]
    /\ UNCHANGED <<screen, creation>>

PayRent(rent) ==
    /\ state' = payRent(state, rent)
    /\ obs' = [char |-> playerId, stat |-> "money",
               asked |-> "inside"]
    /\ UNCHANGED <<screen, creation>>

NextStats ==
    \/ \E c \in AnyCharIds, s \in StatIds, d \in StatDeltas : ModifyStat(c, s, d)
    \/ \E c \in AnyCharIds, s \in StatIds, v \in StatValues : SetStat(c, s, v)
    \/ \E s \in StatIds, d \in StatDeltas, cap \in WeeklyCaps :
          WeeklyStatEffect(s, d, cap)
    \/ \E rent \in Rents : PayRent(rent)

SpecStats == InitStats /\ [][NextStats]_vars

(***************************************************************************)
(* Weekly effect lists: PursuitManager.executeWeeklyEffects on a pursuit's *)
(* whole list.  `state` holds the characters' stats and `obs` the list     *)
(* last executed with what each of its effects met and left.               *)
(***************************************************************************)
\* the effects a pursuit's list is made of
WeeklyEffects ==
    {WeeklyEffect("money", 30, TRUE, 100),
     WeeklyEffect("money", 30, FALSE, 0),
     WeeklyEffect("money", 0 - 40, FALSE, 0),
     WeeklyEffect("health", 30, TRUE, 100)}

\* lists of one or two effects
WeeklyEffectLists ==
    {<<e>> : e \in WeeklyEffects}
       \cup {<<e1, e2>> : e1 \in WeeklyEffects, e2 \in WeeklyEffects}

InitWeekly ==
    /\ state = [characters |->
                  [c \in CharIds |->
                     [stats |-> [s \in StatIds |-> StatDefinitions[s].default]]]]
    /\ screen = "weekly"
    /\ creation = NoCreation
    /\ obs = [effects |-> <<>>, log |-> <<>>]

\* processWeeklyEffects reaching a pursuit with this list
ExecuteWeeklyEffects(effects) ==
    /\ WithinCap(executeWeeklyEffects(state, effects).g)
    /\ state' = executeWeeklyEffects(state, effects).g
    /\ obs' = [effects |-> effects,
               log |-> executeWeeklyEffects(state, effects).log]
    /\ UNCHANGED <<screen, creation>>

NextWeekly == \E effects \in WeeklyEffectLists : ExecuteWeeklyEffects(effects)

SpecWeekly == InitWeekly /\ [][NextWeekly]_vars

(***************************************************************************)
(* Objects: Game.createObject / Game.giveObject / Game.removeObject.  In   *)
(* this specification `state` holds the objects, the inventories and the   *)
(* id counter, and `obs` the last operation.                               *)
(***************************************************************************)
\* ids generateId('obj') hands out, and one id no object has
ObjIds == 1..MaxObjects
AnyObjIds == 0..MaxObjects

NoObject == [exists |-> FALSE, ownerId |-> None]

IndexOf(seq, x) ==
    IF \E i \in 1..Len(seq) : seq[i] = x
    THEN CHOOSE i \in 1..Len(seq) :
            seq[i] = x /\ \A j \in 1..(i - 1) : seq[j] # x
    ELSE 0

\* inventory.splice(idx, 1)
Splice(seq, idx) == SubSeq(seq, 1, idx - 1) \o SubSeq(seq, idx + 1, Len(seq))

Includes(seq, x) == \E i \in 1..Len(seq) : seq[i] = x

getObject(g, objectId) ==
    IF objectId \in ObjIds THEN g.objects[objectId] ELSE NoObject

createObject(g) ==
    [g EXCEPT !.objects[g.nextId] = [exists |-> TRUE, ownerId |-> None],
              !.nextId = @ + 1]

removeObject(g, objectId, charId) ==
    IF charId \notin CharIds THEN g
    ELSE LET inv == g.characters[charId].inventory
             idx == IndexOf(inv, objectId)
             g1 == IF idx # 0
                   THEN [g EXCEPT !.characters[charId].inventory = Splice(inv, idx)]
                   ELSE g
             obj == getObject(g1, objectId)
         IN  IF obj.exists /\ obj.ownerId = charId
             THEN [g1 EXCEPT !.objects[objectId].ownerId = None]
             ELSE g1

\* giveObject that leaves the previous owner's inventory alone
giveObject_keepsPrevious(g, objectId, charId) ==
    LET obj == getObject(g, objectId)
    IN  IF ~(obj.exists /\ charId \in CharIds) THEN g
        ELSE LET g2 == [g EXCEPT !.objects[objectId].ownerId = charId]
             IN  IF ~Includes(g2.characters[charId].inventory, objectId)
                 THEN [g2 EXCEPT !.characters[charId].inventory =
                                      Append(@, objectId)]
                 ELSE g2

giveObject(g, objectId, charId) ==
    LET obj == getObject(g, objectId)
    IN  IF ~(obj.exists /\ charId \in CharIds) THEN g
        ELSE LET g1 == IF obj.ownerId # None
                       THEN removeObject(g, objectId, obj.ownerId)
                       ELSE g
                 g2 == [g1 EXCEPT !.objects[objectId].ownerId = charId]
             IN  IF ~Includes(g2.characters[charId].inventory, objectId)
                 THEN [g2 EXCEPT !.characters[charId].inventory =
                                      Append(@, objectId)]
                 ELSE g2

\* Game.init: no objects, empty inventories
InitObjects ==
    /\ state = [characters |-> [c \in CharIds |-> [inventory |-> <<>>]],
                objects |-> [o \in ObjIds |-> NoObject],
                nextId |-> 1]
    /\ screen = "objects"
    /\ creation = NoCreation
    /\ obs = [op |-> None, obj |-> 0, char |-> None, prev |-> None]

CreateObject ==
    /\ state.nextId <= MaxObjects
    /\ state' = createObject(state)
    /\ obs' = [op |-> "create", obj |-> state.nextId, char |-> None,
               prev |-> None]
    /\ UNCHANGED <<screen, creation>>

GiveObject(o, c) ==
    /\ state' = giveObject(state, o, c)
    /\ obs' = [op |-> "give", obj |-> o, char |-> c,
               prev |-> getObject(state, o).ownerId]
    /\ UNCHANGED <<screen, creation>>

RemoveObject(o, c) ==
    /\ state' = removeObject(state, o, c)
    /\ obs' = [op |-> "remove", obj |-> o, char |-> c,
               prev |-> getObject(state, o).ownerId]
    /\ UNCHANGED <<screen, creation>>

NextObjects ==
    \/ CreateObject
    \/ \E o \in AnyObjIds, c \in AnyCharIds : GiveObject(o, c)
    \/ \E o \in AnyObjIds, c \in AnyCharIds : RemoveObject(o, c)

SpecObjects == InitObjects /\ [][NextObjects]_vars

(***************************************************************************)
(* Injected randomness: the test harness replaces Game.random by a reader  *)
(* of a fixed sequence.  In this specification `state` is the game state   *)
(* and `obs` holds the sequence injected before the last call, the draws   *)
(* the call consumed and the states it went through.                       *)
(***************************************************************************)
\* the values of an injected sequence: two that Game.random can return, one
\* below every probability in use and one above test_event's
SeqValues == {1, RandDen - 1}

\* as long as the draws of one call can be (the bonus draw, then a roll and
\* a trigger point per scheduled event), so that nextRandom never runs out
SeqLen == 1 + 2 * Cardinality({id \in EventIds :
                                  IsScheduled(Events[id].probability)})

RandomSequences == [1..SeqLen -> SeqValues]

\* harness.nextRandom: the value at randomIndex
nextRandom(rnd) == rnd.values[rnd.index]

\* randomIndex++, with a note of which call consumed the value
Consume(rnd, id, kind) ==
    [rnd EXCEPT !.index = @ + 1,
                !.log = Append(@, [id |-> id, kind |-> kind,
                                   value |-> nextRandom(rnd)])]

\* RollOne with the trigger point drawn before the probability roll
RollOne_triggerFirst(id, g, rnd) ==
    LET progress == getWeekProgress(g)
        triggerAt == nextRandom(rnd)
        r1 == Consume(rnd, id, "trigger")
        roll == nextRandom(r1)
        r2 == Consume(r1, id, "roll")
    IN  IF roll > Events[id].probability
        THEN [g |-> [g EXCEPT !.eventSchedule[id] = FailedEntry], rnd |-> r2]
        ELSE [g |-> [g EXCEPT !.eventSchedule[id] =
                        RollEntry(id, roll, triggerAt, progress)],
              rnd |-> r2]

\* the body of the scheduling loop for an event that needs a roll
RollOne(id, g, rnd) ==
    LET progress == getWeekProgress(g)
        roll == nextRandom(rnd)
        r1 == Consume(rnd, id, "roll")
    IN  IF roll > Events[id].probability
        THEN [g |-> [g EXCEPT !.eventSchedule[id] = FailedEntry], rnd |-> r1]
        ELSE [g |-> [g EXCEPT !.eventSchedule[id] =
                        RollEntry(id, roll, nextRandom(r1), progress)],
              rnd |-> Consume(r1, id, "trigger")]

RECURSIVE ScheduleSeqFrom(_, _, _)
ScheduleSeqFrom(i, g, rnd) ==
    IF i > Len(EventOrder) THEN [g |-> g, rnd |-> rnd]
    ELSE LET id == EventOrder[i]
         IN  IF ~NeedsRoll(id, g.eventSchedule, g)
             THEN ScheduleSeqFrom(i + 1, g, rnd)
             ELSE LET r == RollOne(id, g, rnd)
                  IN  ScheduleSeqFrom(i + 1, r.g, r.rnd)

\* scheduleNewEvents reading the injected sequence
scheduleNewEventsSeq(g, rnd) == ScheduleSeqFrom(1, g, rnd)

\* the game loop after a call that reads the injected sequence
LoopSeq(g, rnd) ==
    LET s == scheduleNewEventsSeq(g, rnd)
        ev == evaluateScheduled(g, s.g)
    IN  [g |-> refreshDisplay(evaluateStorylines(ev.g).g),
         input |-> g, scheduled |-> s.g, rnd |-> s.rnd]

\* startWeekSeq granting the bonus action whatever the draw
startWeekSeq_alwaysBonus(g, rnd) ==
    LET actions == calculateEffectiveActions(g)
        drawn == actions.bonusNum > 0
        r1 == IF drawn THEN Consume(rnd, None, "bonus") ELSE rnd
        budget == IF drawn THEN actions.guaranteed + 1 ELSE actions.guaranteed
    IN  LoopSeq(ResetWeek(g, budget), r1)

\* startWeek reading the injected sequence: the bonus draw, the weekly
\* effects, the reset, then the game loop
startWeekSeq(g, rnd) ==
    LET actions == calculateEffectiveActions(g)
        drawn == actions.bonusNum > 0
        r1 == IF drawn THEN Consume(rnd, None, "bonus") ELSE rnd
        budget == IF drawn /\ nextRandom(rnd) * HOURS_PER_ACTION
                                < actions.bonusNum * RandDen
                  THEN actions.guaranteed + 1 ELSE actions.guaranteed
    IN  LoopSeq(ResetWeek(g, budget), r1)

ObserveSeq(values, r, isWeekStart, budgetOf) ==
    [ran |-> TRUE, values |-> values, log |-> r.rnd.log, input |-> r.input,
     scheduled |-> r.scheduled, weekStart |-> isWeekStart,
     actions |-> calculateEffectiveActions(budgetOf)]

InitRandom ==
    /\ state = InitialState
    /\ screen = "actions"
    /\ creation = NoCreation
    /\ obs = [ran |-> FALSE, values |-> [i \in 1..SeqLen |-> 1], log |-> <<>>,
              input |-> InitialState, scheduled |-> InitialState,
              weekStart |-> FALSE,
              actions |-> calculateEffectiveActions(InitialState)]

\* t.setRandomSequence(values); Game.useAction(1)
SeqUseAction(values) ==
    /\ state.actionsRemaining >= 1
    /\ LET r == LoopSeq([state EXCEPT !.actionsRemaining = @ - 1],
                        [values |-> values, index |-> 1, log |-> <<>>])
       IN  /\ state' = r.g
           /\ obs' = ObserveSeq(values, r, FALSE, state)
    /\ UNCHANGED <<screen, creation>>

\* the week's end, then t.setRandomSequence(values); Game.startWeek()
SeqStartWeek(values) ==
    /\ state.actionsRemaining = 0
    /\ state.week < MaxWeek
    /\ LET g == endWeek(state)
           r == startWeekSeq(g, [values |-> values, index |-> 1, log |-> <<>>])
       IN  /\ state' = r.g
           /\ obs' = ObserveSeq(values, r, TRUE, g)
    /\ UNCHANGED <<screen, creation>>

\* an effect list run directly: a flag for an event's conditions, a pursuit
\* whose hours give a bonus chance
SeqEffects == {Eff("setFlag", "win", None),
               Eff("startPursuit", "medium_job", None)}

SeqExecute(e) ==
    /\ state' = ApplyEffect(e, state)
    /\ UNCHANGED <<screen, creation, obs>>

NextRandom ==
    \/ \E values \in RandomSequences : SeqUseAction(values)
    \/ \E values \in RandomSequences : SeqStartWeek(values)
    \/ \E e \in SeqEffects : SeqExecute(e)

SpecRandom == InitRandom /\ [][NextRandom]_vars

(***************************************************************************)
(* Saves and loads: Game.save / Game.load / Game.resumeFromLoad around the *)
(* week cycle.  In this specification `state` is the game state with the   *)
(* player's stats, and `obs` holds the save slots and, for the week being  *)
(* played, how often startWeek has set the budget and applied each         *)
(* pursuit's weekly effects; a slot keeps those counts with the state it   *)
(* saved.  Every draw of Game.random is 1/RandDen.                         *)
(***************************************************************************)
SlotIds == {"autosave", "slot1"}

\* a game state with its characters
WithCharacters(g) ==
    [f \in DOMAIN g \cup {"characters"} |->
        IF f = "characters"
        THEN [c \in CharIds |->
                [stats |-> [st \in StatIds |-> StatDefinitions[st].default]]]
        ELSE g[f]]

NoEvals == [week |-> 1, budget |-> 0, weekly |-> [p \in PursuitIds |-> 0]]

NoSlot == [present |-> FALSE, state |-> WithCharacters(InitialState),
           evals |-> NoEvals]

FixedRandom == [values |-> [i \in 1..SeqLen |-> 1], index |-> 1, log |-> <<>>]

\* the pursuits whose weekly effects processWeeklyEffects executes
AppliesWeekly(g, p) ==
    /\ g.pursuits[p].present /\ g.pursuits[p].active
    /\ \/ Pursuits[p].configType = "action"
       \/ Pursuits[p].configType = "toggle" /\ g.pursuits[p].enabled
    /\ Len(Pursuits[p].weeklyEffects) > 0

\* the counts after one more startWeek on g
CountStartWeek(e, g) ==
    LET base == IF e.week = g.week THEN e ELSE [NoEvals EXCEPT !.week = g.week]
    IN  [week |-> g.week,
         budget |-> base.budget + 1,
         weekly |-> [p \in PursuitIds |->
                       IF AppliesWeekly(g, p) THEN base.weekly[p] + 1
                       ELSE base.weekly[p]]]

\* Game.save(slot)
save(slots, slot, g, e) ==
    [slots EXCEPT ![slot] = [present |-> TRUE, state |-> g, evals |-> e]]

InitSaves ==
    /\ state = WithCharacters(InitialState)
    /\ screen = "actions"
    /\ creation = NoCreation
    /\ obs = [slots |-> [sl \in SlotIds |-> NoSlot], evals |-> NoEvals]

\* Game.useAction(1)
SvUseAction ==
    /\ screen = "actions"
    /\ state.actionsRemaining >= 1
    /\ state' = LoopSeq([state EXCEPT !.actionsRemaining = @ - 1],
                        FixedRandom).g
    /\ UNCHANGED <<screen, creation, obs>>

\* Game.endWeek: exit conditions, week++, the autosave, the save prompt
SvEndWeek ==
    /\ screen = "actions"
    /\ state.actionsRemaining = 0
    /\ state.week < MaxWeek
    /\ state' = endWeek(state)
    /\ obs' = [obs EXCEPT !.slots = save(@, "autosave", endWeek(state), obs.evals)]
    /\ screen' = "savePrompt"
    /\ UNCHANGED creation

\* the system menu's Save Game, or the save prompt's Save to Slot
SvSave ==
    /\ screen \in {"actions", "savePrompt"}
    /\ obs' = [obs EXCEPT !.slots = save(@, "slot1", state, obs.evals)]
    /\ UNCHANGED <<state, screen, creation>>

\* the save prompt's Continue: showPursuitUI
SvDismissSavePrompt ==
    /\ screen = "savePrompt"
    /\ hasConfigurablePursuits(state)
    /\ screen' = "pursuitUI"
    /\ UNCHANGED <<state, creation, obs>>

SvTogglePursuit(p) ==
    /\ screen = "pursuitUI"
    /\ Pursuits[p].configType = "toggle"
    /\ state.pursuits[p].present
    /\ state' = [state EXCEPT !.pursuits[p].enabled = ~@]
    /\ UNCHANGED <<screen, creation, obs>>

\* the pursuit panel's Start Week button: startWeek
SvConfirmPursuits ==
    /\ screen = "pursuitUI"
    /\ CountStartWeek(obs.evals, state).budget <= MaxEvals
    /\ state' = startWeekSeq(state, FixedRandom).g
    /\ obs' = [obs EXCEPT !.evals = CountStartWeek(@, state)]
    /\ screen' = "actions"
    /\ UNCHANGED creation

\* the system menu's Load Game: Game.load(slot); Game.resumeFromLoad()
SvLoad(slot) ==
    /\ obs.slots[slot].present
    /\ hasConfigurablePursuits(obs.slots[slot].state)
    /\ state' = obs.slots[slot].state
    /\ obs' = [obs EXCEPT !.evals = obs.slots[slot].evals]
    /\ screen' = "pursuitUI"
    /\ UNCHANGED creation

NextSaves ==
    \/ SvUseAction
    \/ SvEndWeek
    \/ SvSave
    \/ SvDismissSavePrompt
    \/ \E p \in PursuitIds : SvTogglePursuit(p)
    \/ SvConfirmPursuits
    \/ \E slot \in SlotIds : SvLoad(slot)

SpecSaves == InitSaves /\ [][NextSaves]_vars

(***************************************************************************)
(* The budget arithmetic on its own: `state` holds a total of weekly       *)
(* pursuit hours and, once computed, the result.                           *)
(***************************************************************************)
\* totals of hours, from below zero to past the point where no action is
\* left
HoursRange == (0 - MaxHours) .. (FREE_HOURS + actionsPerPeriod * HOURS_PER_ACTION + MaxHours)

InitBudget ==
    /\ state \in [pursuitHours : HoursRange, computed : {FALSE},
                  guaranteed : {0}, bonusNum : {0}]
    /\ screen = "budget"
    /\ creation = NoCreation
    /\ obs = [calls |-> 0]

Calculate ==
    /\ ~state.computed
    /\ state' = [pursuitHours |-> state.pursuitHours, computed |-> TRUE,
                 guaranteed |-> EffectiveActions(state.pursuitHours).guaranteed,
                 bonusNum |-> EffectiveActions(state.pursuitHours).bonusNum]
    /\ obs' = [calls |-> 1]
    /\ UNCHANGED <<screen, creation>>

NextBudget == Calculate

SpecBudget == InitBudget /\ [][NextBudget]_vars

(***************************************************************************)
(* Pursuit activation and deactivation: effects that start and end         *)
(* pursuits and the exit conditions checked when the week ends.  `state`   *)
(* is the game state with the player's stats; `obs` holds the last         *)
(* operation and the state it started from.                                *)
(***************************************************************************)
\* the effects run, among them ending a pursuit nobody defined
PursuitEffects ==
    {Eff("startPursuit", "medium_job", None),
     Eff("endPursuit", "medium_job", None),
     Eff("endPursuit", "routine1", None),
     Eff("endPursuit", "no_such_pursuit", None),
     Eff("startPursuit", "routine1", None),
     Eff("setFlag", "fired", None),
     Eff("clearFlag", "fired", None)}

InitPursuits ==
    /\ state = WithCharacters(InitialState)
    /\ screen = "pursuits"
    /\ creation = NoCreation
    /\ obs = [op |-> None, pursuit |-> None,
              before |-> WithCharacters(InitialState)]

\* EffectExecutor.execute([effect], game)
PursuitEffect(e) ==
    /\ WithinCap(ApplyEffect(e, state))
    /\ state' = ApplyEffect(e, state)
    /\ obs' = [op |-> e.op, pursuit |-> e.a, before |-> state]
    /\ UNCHANGED <<screen, creation>>

\* PursuitManager.checkExitConditions(game), as Game.endWeek calls it
CheckExitConditions ==
    /\ WithinCap(checkExitConditions(state))
    /\ state' = checkExitConditions(state)
    /\ obs' = [op |-> "checkExitConditions", pursuit |-> None, before |-> state]
    /\ UNCHANGED <<screen, creation>>

NextPursuits ==
    \/ \E e \in PursuitEffects : PursuitEffect(e)
    \/ CheckExitConditions

SpecPursuits == InitPursuits /\ [][NextPursuits]_vars

(***************************************************************************)
(* Possessions: the ensurePossession effect.  `state` holds the objects    *)
(* (here with their template type and a state field), the inventories and  *)
(* the id counter; `obs` what the last operation met.                      *)
(***************************************************************************)
TemplateTypes == {"appearance_boost", "home"}

\* the state overrides of the effects: { level: n }
Levels == {1, 5}

\* Game.createObject(templateType, templateType, { level })
createObjectOfType(g, templateType, level) ==
    [createObject(g) EXCEPT
        !.objects[g.nextId] = [exists |-> TRUE, ownerId |-> None,
                               templateType |-> templateType,
                               level |-> level]]

\* getCharacterObjectsOfType: the ids, in inventory order
getCharacterObjectsOfType(g, charId, templateType) ==
    IF charId \notin CharIds THEN <<>>
    ELSE SelectSeq(g.characters[charId].inventory,
                   LAMBDA id : /\ getObject(g, id).exists
                               /\ g.objects[id].templateType = templateType)

\* getCharacterObjectOfType: the first of them, 0 for null
getCharacterObjectOfType(g, charId, templateType) ==
    LET found == getCharacterObjectsOfType(g, charId, templateType)
    IN  IF Len(found) = 0 THEN 0 ELSE found[1]

\* ensurePossession that always creates
ensurePossession_alwaysCreates(g, templateType, level) ==
    giveObject(createObjectOfType(g, templateType, level), g.nextId, playerId)

\* the ensurePossession branch of EffectExecutor.execute
ensurePossession(g, templateType, level) ==
    LET existingObj == getCharacterObjectOfType(g, playerId, templateType)
    IN  IF existingObj # 0
        THEN [g EXCEPT !.objects[existingObj].level = level]
        ELSE giveObject(createObjectOfType(g, templateType, level),
                        g.nextId, playerId)

InitPossessions ==
    /\ state = [characters |-> [c \in CharIds |-> [inventory |-> <<>>]],
                objects |-> [o \in ObjIds |-> NoObject],
                nextId |-> 1]
    /\ screen = "possessions"
    /\ creation = NoCreation
    /\ obs = [op |-> None, type |-> None, level |-> 0, had |-> 0,
              nextId |-> 1]

\* EffectExecutor.execute([{ ensurePossession: [type, { level }] }], game)
EnsurePossession(templateType, level) ==
    /\ \/ getCharacterObjectOfType(state, playerId, templateType) # 0
       \/ state.nextId <= MaxObjects
    /\ state' = ensurePossession(state, templateType, level)
    /\ obs' = [op |-> "ensurePossession", type |-> templateType,
               level |-> level,
               had |-> getCharacterObjectOfType(state, playerId, templateType),
               nextId |-> state.nextId]
    /\ UNCHANGED <<screen, creation>>

\* the player's object passes to another character
GiveAway(o) ==
    /\ getObject(state, o).exists
    /\ state.objects[o].ownerId = playerId
    /\ state' = giveObject(state, o, "char_2")
    /\ obs' = [op |-> "giveObject", type |-> state.objects[o].templateType,
               level |-> 0,
               had |-> o, nextId |-> state.nextId]
    /\ UNCHANGED <<screen, creation>>

NextPossessions ==
    \/ \E t \in TemplateTypes, l \in Levels : EnsurePossession(t, l)
    \/ \E o \in ObjIds : GiveAway(o)

SpecPossessions == InitPossessions /\ [][NextPossessions]_vars

(***************************************************************************)
(* Skills: general skills, and specific skills that build on a parent      *)
(* general skill.  `state` holds the characters' stored skill values, the  *)
(* deep skills and the stats; `obs` the last operation and the state it    *)
(* met.                                                                    *)
(***************************************************************************)
SkillIds == {"computers", "hacking"}

AnySkillIds == SkillIds \cup {"no_such_skill"}

SkillDefinitions ==
    [s \in SkillIds |->
        IF s = "computers"
        THEN [type |-> "general", parent |-> None]
        ELSE [type |-> "specific", parent |-> "computers"]]

GeneralSkills == {s \in SkillIds : SkillDefinitions[s].type = "general"}
SpecificSkills == {s \in SkillIds : SkillDefinitions[s].type # "general"}

\* skills: { general: {}, specific: {} }; a missing entry reads as 0
NoSkills ==
    [general |-> [s \in GeneralSkills |-> 0],
     specific |-> [s \in SpecificSkills |-> 0]]

getSkill(g, charId, skillName) ==
    IF charId \notin CharIds THEN 0
    ELSE IF skillName \notin SkillIds THEN 0
    ELSE LET def == SkillDefinitions[skillName]
             char == g.characters[charId]
         IN  IF def.type = "general"
             THEN char.skills.general[skillName]
             ELSE char.skills.specific[skillName]
                    + char.skills.general[def.parent]

\* modifySkill writing a specific skill's change into its parent
modifySkill_parentBucket(g, charId, skillName, delta) ==
    IF charId \notin CharIds \/ skillName \notin SkillIds THEN g
    ELSE LET def == SkillDefinitions[skillName]
             general == IF def.type = "general" THEN skillName ELSE def.parent
         IN  [g EXCEPT !.characters[charId].skills.general[general] = @ + delta]

modifySkill(g, charId, skillName, delta) ==
    IF charId \notin CharIds \/ skillName \notin SkillIds THEN g
    ELSE IF SkillDefinitions[skillName].type = "general"
         THEN [g EXCEPT
                 !.characters[charId].skills.general[skillName] = @ + delta]
         ELSE [g EXCEPT
                 !.characters[charId].skills.specific[skillName] = @ + delta]

setSkill(g, charId, skillName, value) ==
    IF charId \notin CharIds \/ skillName \notin SkillIds THEN g
    ELSE IF SkillDefinitions[skillName].type = "general"
         THEN [g EXCEPT
                 !.characters[charId].skills.general[skillName] = value]
         ELSE [g EXCEPT
                 !.characters[charId].skills.specific[skillName] = value]

hasDeepSkill(g, charId, skillName) ==
    IF charId \notin CharIds THEN FALSE
    ELSE skillName \in g.characters[charId].deepSkills

addDeepSkill(g, charId, skillName) ==
    IF charId \notin CharIds THEN g
    ELSE [g EXCEPT !.characters[charId].deepSkills = @ \cup {skillName}]

\* a character as createCharacter makes it
NewCharacter ==
    [stats |-> [st \in StatIds |-> StatDefinitions[st].default],
     skills |-> NoSkills,
     deepSkills |-> {}]

SkillDeltas == {0 - 10, 10}
SkillValues == {0, 10}

\* stored skill values stay within -MaxSkill .. MaxSkill
SkillInRange(g) ==
    \A c \in CharIds :
        /\ \A s \in GeneralSkills :
              /\ g.characters[c].skills.general[s] <= MaxSkill
              /\ g.characters[c].skills.general[s] >= 0 - MaxSkill
        /\ \A s \in SpecificSkills :
              /\ g.characters[c].skills.specific[s] <= MaxSkill
              /\ g.characters[c].skills.specific[s] >= 0 - MaxSkill

InitSkills ==
    /\ state = [characters |-> [c \in CharIds |-> NewCharacter]]
    /\ screen = "skills"
    /\ creation = NoCreation
    /\ obs = [op |-> None, char |-> None, skill |-> None,
              before |-> [c \in CharIds |-> NoSkills]]

SkillsBefore == [c \in CharIds |-> state.characters[c].skills]

ModifySkill(c, s, delta) ==
    /\ SkillInRange(modifySkill(state, c, s, delta))
    /\ state' = modifySkill(state, c, s, delta)
    /\ obs' = [op |-> "modifySkill", char |-> c, skill |-> s,
               before |-> SkillsBefore]
    /\ UNCHANGED <<screen, creation>>

SetSkill(c, s, v) ==
    /\ state' = setSkill(state, c, s, v)
    /\ obs' = [op |-> "setSkill", char |-> c, skill |-> s,
               before |-> SkillsBefore]
    /\ UNCHANGED <<screen, creation>>

NextSkills ==
    \/ \E c \in AnyCharIds, s \in AnySkillIds, d \in SkillDeltas :
          ModifySkill(c, s, d)
    \/ \E c \in AnyCharIds, s \in AnySkillIds, v \in SkillValues :
          SetSkill(c, s, v)

SpecSkills == InitSkills /\ [][NextSkills]_vars

(***************************************************************************)
(* AbilityChecker: skill checks.  A check names a skill, a dice notation,  *)
(* a difficulty, and optionally a crush margin, stat bonuses and           *)
(* difficulty modifiers.  A missing string field is None, a missing number *)
(* Undefined.  Scales are rationals num/den (0.3 is 3/10).                 *)
(***************************************************************************)
Bonus(statName, num, den) == [stat |-> statName, num |-> num, den |-> den]

\* { condition: { stat: [statName, '<', below] }, add }
Modifier(statName, below, add) ==
    [stat |-> statName, below |-> below, add |-> add]

NoCheck ==
    [skill |-> None, dice |-> None, difficulty |-> Undefined,
     crushMargin |-> Undefined, bonuses |-> <<>>, modifiers |-> <<>>]

CheckRefs == {"hack_system", "athletic_leap"}

\* AbilityChecks of the data file (athletic_leap on the model's skill)
AbilityChecks ==
    [r \in CheckRefs |->
        IF r = "hack_system"
        THEN [NoCheck EXCEPT !.skill = "hacking", !.dice = "2d6",
                             !.difficulty = 55, !.crushMargin = 20]
        ELSE [NoCheck EXCEPT !.skill = "computers", !.dice = "2d6",
                             !.difficulty = 50,
                             !.bonuses = <<Bonus("health", 3, 10)>>,
                             !.modifiers = <<Modifier("health", 50, 10),
                                             Modifier("health", 20, 15)>>]]

\* parseDice: "2d6" -> { count: 2, sides: 6 }, 1d20 when nothing matches
parseDice(notation) ==
    CASE notation = "2d6" -> [count |-> 2, sides |-> 6]
      [] notation = "1d4" -> [count |-> 1, sides |-> 4]
      [] OTHER -> [count |-> 1, sides |-> 20]

MaxDice == 2

\* the draws of game.random() a roll may consume, as numerators over RandDen
DiceDraws == [1 .. MaxDice -> Draws]

RECURSIVE SumDice(_, _, _)
SumDice(i, dice, draws) ==
    IF i > dice.count THEN 0
    ELSE ((draws[i] * dice.sides) \div RandDen) + 1
           + SumDice(i + 1, dice, draws)

\* rollDice: sum of floor(random * sides) + 1 over count dice
rollDice(notation, draws) == SumDice(1, parseDice(notation), draws)

\* resolveCheck: a string id, an object with ref and overrides, or inline
StringCheck(ref) == [kind |-> "string", ref |-> ref, spec |-> NoCheck]
RefCheck(ref, overrides) == [kind |-> "ref", ref |-> ref, spec |-> overrides]
InlineCheck(spec) == [kind |-> "inline", ref |-> None, spec |-> spec]

\* merged[key] = abilityCheck[key] for every key the input carries
MergeCheck(base, over) ==
    [skill |-> IF over.skill # None THEN over.skill ELSE base.skill,
     dice |-> IF over.dice # None THEN over.dice ELSE base.dice,
     difficulty |-> IF over.difficulty # Undefined
                    THEN over.difficulty ELSE base.difficulty,
     crushMargin |-> IF over.crushMargin # Undefined
                     THEN over.crushMargin ELSE base.crushMargin,
     bonuses |-> IF over.bonuses # <<>> THEN over.bonuses ELSE base.bonuses,
     modifiers |-> IF over.modifiers # <<>>
                   THEN over.modifiers ELSE base.modifiers]

resolveCheck(abilityCheck) ==
    IF abilityCheck.kind = "string"
    THEN IF abilityCheck.ref \in CheckRefs
         THEN [found |-> TRUE, check |-> AbilityChecks[abilityCheck.ref]]
         ELSE [found |-> FALSE, check |-> NoCheck]
    ELSE IF abilityCheck.kind = "ref"
    THEN IF abilityCheck.ref \in CheckRefs
         THEN [found |-> TRUE,
               check |-> MergeCheck(AbilityChecks[abilityCheck.ref],
                                    abilityCheck.spec)]
         ELSE [found |-> FALSE, check |-> NoCheck]
    ELSE [found |-> TRUE, check |-> abilityCheck.spec]

\* validateCheck that does not ask for the dice
validateCheck_skipsDice(abilityCheck) ==
    (IF abilityCheck.skill = None
     THEN <<"Missing required field: skill">> ELSE <<>>)
    \o (IF abilityCheck.difficulty = Undefined
        THEN <<"Missing required field: difficulty">> ELSE <<>>)

\* validateCheck: the list of errors
validateCheck(abilityCheck) ==
    (IF abilityCheck.skill = None
     THEN <<"Missing required field: skill">> ELSE <<>>)
    \o (IF abilityCheck.dice = None
        THEN <<"Missing required field: dice">> ELSE <<>>)
    \o (IF abilityCheck.difficulty = Undefined
        THEN <<"Missing required field: difficulty">> ELSE <<>>)

\* the deep memory bonus
DeepMemoryBonus(g, skill, useDeepMemory) ==
    IF useDeepMemory
    THEN (IF hasDeepSkill(g, playerId, skill) THEN 100 ELSE 30)
    ELSE 0

RECURSIVE StatBonuses(_, _, _)
StatBonuses(g, bonuses, i) ==
    IF i > Len(bonuses) THEN 0
    ELSE ((getStat(g, playerId, bonuses[i].stat) * bonuses[i].num)
            \div bonuses[i].den)
         + StatBonuses(g, bonuses, i + 1)

\* playerValue with the generic deep memory bonus in every case
PlayerValue_genericDeepMemory(g, abilityCheck, useDeepMemory) ==
    getSkill(g, playerId, abilityCheck.skill)
    + (IF useDeepMemory THEN 30 ELSE 0)
    + StatBonuses(g, abilityCheck.bonuses, 1)

\* playerValue: skill, deep memory bonus, bonuses from stats
PlayerValue(g, abilityCheck, useDeepMemory) ==
    getSkill(g, playerId, abilityCheck.skill)
    + DeepMemoryBonus(g, abilityCheck.skill, useDeepMemory)
    + StatBonuses(g, abilityCheck.bonuses, 1)

RECURSIVE ApplyModifiers(_, _, _)
ApplyModifiers(g, modifiers, i) ==
    IF i > Len(modifiers) THEN 0
    ELSE (IF getStat(g, playerId, modifiers[i].stat) < modifiers[i].below
          THEN modifiers[i].add ELSE 0)
         + ApplyModifiers(g, modifiers, i + 1)

\* resolveDifficulty of a number, plus the modifiers whose condition holds
EffectiveDifficulty(g, abilityCheck) ==
    abilityCheck.difficulty + ApplyModifiers(g, abilityCheck.modifiers, 1)

\* `crushMargin &&`: a margin of 0 counts as no margin
HasCrushMargin(crushMargin) == crushMargin # Undefined /\ crushMargin # 0

\* the outcome with the crushing-failure comparison turned round
Outcome_invertedCrush(playerRoll, effectiveDifficulty, crushMargin) ==
    IF HasCrushMargin(crushMargin)
       /\ playerRoll >= effectiveDifficulty + crushMargin
    THEN "crushingSuccess"
    ELSE IF playerRoll >= effectiveDifficulty THEN "success"
    ELSE IF HasCrushMargin(crushMargin)
            /\ playerRoll >= effectiveDifficulty - crushMargin
    THEN "crushingFailure"
    ELSE "failure"

\* Determine outcome
Outcome(playerRoll, effectiveDifficulty, crushMargin) ==
    IF HasCrushMargin(crushMargin)
       /\ playerRoll >= effectiveDifficulty + crushMargin
    THEN "crushingSuccess"
    ELSE IF playerRoll >= effectiveDifficulty THEN "success"
    ELSE IF HasCrushMargin(crushMargin)
            /\ playerRoll < effectiveDifficulty - crushMargin
    THEN "crushingFailure"
    ELSE "failure"

NoResult ==
    [outcome |-> None, error |-> <<>>, playerRoll |-> 0,
     effectiveDifficulty |-> 0, roll |-> 0, skillValue |-> 0]

\* AbilityChecker.check; notation.match of a missing notation is a TypeError
check(abilityCheckInput, g, useDeepMemory, draws) ==
    LET resolved == resolveCheck(abilityCheckInput)
        abilityCheck == resolved.check
        errors == validateCheck(abilityCheck)
        playerValue == PlayerValue(g, abilityCheck, useDeepMemory)
        roll == rollDice(abilityCheck.dice, draws)
        playerRoll == playerValue + roll
        effectiveDifficulty == EffectiveDifficulty(g, abilityCheck)
    IN  IF ~resolved.found
        THEN [NoResult EXCEPT !.outcome = "failure",
                              !.error = <<"Invalid check reference">>]
        ELSE IF Len(errors) > 0
        THEN [NoResult EXCEPT !.outcome = "failure", !.error = errors]
        ELSE IF abilityCheck.dice = None
        THEN [NoResult EXCEPT !.outcome = "throws"]
        ELSE [outcome |-> Outcome(playerRoll, effectiveDifficulty,
                                  abilityCheck.crushMargin),
              error |-> <<>>,
              playerRoll |-> playerRoll,
              effectiveDifficulty |-> effectiveDifficulty,
              roll |-> roll,
              skillValue |-> playerValue]

\* the checks the model makes
CrushMargins == {Undefined, 0, 15}
BonusLists ==
    {<<>>, <<Bonus("health", 3, 10)>>,
     <<Bonus("health", 1, 2), Bonus("money", 1, 1)>>}

ValidChecks ==
    {[NoCheck EXCEPT !.skill = "hacking", !.dice = d, !.difficulty = 50,
                     !.crushMargin = m, !.bonuses = b] :
        d \in {"2d6", "1d4"}, m \in CrushMargins, b \in BonusLists}

InvalidChecks ==
    {NoCheck,
     [NoCheck EXCEPT !.dice = "2d6", !.difficulty = 0],
     [NoCheck EXCEPT !.skill = "hacking", !.difficulty = 0],
     [NoCheck EXCEPT !.skill = "hacking", !.dice = "2d6"]}

CheckInputs ==
    {StringCheck(r) : r \in CheckRefs \cup {"no_such_check"}}
    \cup {RefCheck("hack_system", [NoCheck EXCEPT !.difficulty = 75]),
          RefCheck("no_such_check", [NoCheck EXCEPT !.difficulty = 75])}
    \cup {InlineCheck(c) : c \in ValidChecks \cup InvalidChecks}

CheckSkillValues == {15, 40}
CheckStatValues == {15, 45}

\* no check made since the world last changed
NoCheckMade ==
    [op |-> None, input |-> StringCheck("hack_system"),
     useDeepMemory |-> FALSE, resolved |-> NoCheck, result |-> NoResult]

InitChecks ==
    /\ state = [characters |-> [c \in CharIds |-> NewCharacter]]
    /\ screen = "checks"
    /\ creation = NoCreation
    /\ obs = NoCheckMade

ChSetSkill(s, v) ==
    /\ state' = setSkill(state, playerId, s, v)
    /\ obs' = NoCheckMade
    /\ UNCHANGED <<screen, creation>>

ChAddDeepSkill(s) ==
    /\ state' = addDeepSkill(state, playerId, s)
    /\ obs' = NoCheckMade
    /\ UNCHANGED <<screen, creation>>

ChSetStat(st, v) ==
    /\ state' = setStat(state, playerId, st, v)
    /\ obs' = NoCheckMade
    /\ UNCHANGED <<screen, creation>>

\* AbilityChecker.check(input, Game, useDeepMemory); one result is observed
\* at a time, the world's next change clears it
AbilityCheck(input, useDeepMemory, draws) ==
    /\ obs.op = None
    /\ obs' = [op |-> "check", input |-> input,
               useDeepMemory |-> useDeepMemory,
               resolved |-> resolveCheck(input).check,
               result |-> check(input, state, useDeepMemory, draws)]
    /\ UNCHANGED <<state, screen, creation>>

NextChecks ==
    \/ \E s \in SkillIds, v \in CheckSkillValues : ChSetSkill(s, v)
    \/ \E s \in SkillIds : ChAddDeepSkill(s)
    \/ \E v \in CheckStatValues : ChSetStat("health", v)
    \/ \E input \in CheckInputs, useDeepMemory \in BOOLEAN,
          draws \in DiceDraws :
          AbilityCheck(input, useDeepMemory, draws)

SpecChecks == InitChecks /\ [][NextChecks]_vars

(***************************************************************************)
(* Save data: Game.save writes JSON.stringify({ state, nextId, meta }) to  *)
(* the slot's key and Game.load reads it back with JSON.parse.  The stored *)
(* text is modelled as the document it denotes: the keys of the state      *)
(* object and the leaves under them, each a pair of a path and a value; a  *)
(* key that is not set has no leaf.  `state` is the game with its id       *)
(* counter, `obs` the storage, what each slot was written from, and the    *)
(* last operation with what it raised.                                     *)
(***************************************************************************)
\* the value of the leaf at `path`, or `default` when the document has none
Leaf(leaves, path, default) ==
    IF \E l \in leaves : l[1] = path
    THEN (CHOOSE l \in leaves : l[1] = path)[2]
    ELSE default

HasLeaf(leaves, path) == \E l \in leaves : l[1] = path

\* JSON.stringify(data)
stringify(g, nextId) ==
    [keys |-> DOMAIN g,
     nextId |-> nextId,
     numbers |->
        {<<<<k>>, g[k]>> :
            k \in {"week", "actionsRemaining", "weekStartActions"}}
        \cup {<<<<"eventSchedule", id, "triggerAt">>,
                g.eventSchedule[id].triggerAt>> :
                id \in {e \in EventIds : /\ g.eventSchedule[e].present
                                         /\ g.eventSchedule[e].passed}},
     booleans |->
        {<<<<"flags", f>>, TRUE>> : f \in g.flags}
        \cup {<<<<"completedEvents", e>>, TRUE>> : e \in g.completedEvents}
        \cup UNION {{<<<<"eventSchedule", id, "passed">>,
                       g.eventSchedule[id].passed>>,
                     <<<<"eventSchedule", id, "triggered">>,
                       g.eventSchedule[id].triggered>>,
                     <<<<"eventSchedule", id, "missed">>,
                       g.eventSchedule[id].missed>>} :
                      id \in {e \in EventIds : g.eventSchedule[e].present}}
        \cup UNION {{<<<<"storylines", st, "enteredChapter">>,
                       g.storylines[st].enteredChapter>>,
                     <<<<"storylines", st, "completed">>,
                       g.storylines[st].completed>>} :
                      st \in {x \in StoryIds : g.storylines[x].present}}
        \cup (IF "pursuits" \in DOMAIN g
              THEN UNION {{<<<<"pursuits", pu, "active">>,
                             g.pursuits[pu].active>>,
                           <<<<"pursuits", pu, "enabled">>,
                             g.pursuits[pu].enabled>>} :
                            pu \in {x \in PursuitIds : g.pursuits[x].present}}
              ELSE {}),
     strings |->
        {l \in UNION {{<<<<"storylines", st, "currentChapter">>,
                          g.storylines[st].currentChapter>>,
                        <<<<"storylines", st, "result">>,
                          g.storylines[st].result>>} :
                         st \in {x \in StoryIds : g.storylines[x].present}} :
            l[2] # None}]

\* the state object of JSON.parse(data)
parse(doc) ==
    LET full ==
          [week |-> Leaf(doc.numbers, <<"week">>, 0),
           actionsRemaining |-> Leaf(doc.numbers, <<"actionsRemaining">>, 0),
           weekStartActions |-> Leaf(doc.numbers, <<"weekStartActions">>, 0),
           flags |-> {l[1][2] : l \in {x \in doc.booleans :
                                           x[1][1] = "flags"}},
           completedEvents |->
              {e \in EventIds :
                  HasLeaf(doc.booleans, <<"completedEvents", e>>)},
           eventSchedule |->
              [id \in EventIds |->
                 [present |->
                     HasLeaf(doc.booleans, <<"eventSchedule", id, "passed">>),
                  passed |->
                     Leaf(doc.booleans, <<"eventSchedule", id, "passed">>,
                          FALSE),
                  triggerAt |->
                     Leaf(doc.numbers, <<"eventSchedule", id, "triggerAt">>,
                          0),
                  triggered |->
                     Leaf(doc.booleans, <<"eventSchedule", id, "triggered">>,
                          FALSE),
                  missed |->
                     Leaf(doc.booleans, <<"eventSchedule", id, "missed">>,
                          FALSE)]],
           storylines |->
              [st \in StoryIds |->
                 [present |->
                     HasLeaf(doc.booleans,
                             <<"storylines", st, "enteredChapter">>),
                  currentChapter |->
                     Leaf(doc.strings, <<"storylines", st, "currentChapter">>,
                          None),
                  enteredChapter |->
                     Leaf(doc.booleans,
                          <<"storylines", st, "enteredChapter">>, FALSE),
                  completed |->
                     Leaf(doc.booleans, <<"storylines", st, "completed">>,
                          FALSE),
                  result |->
                     Leaf(doc.strings, <<"storylines", st, "result">>,
                          None)]],
           pursuits |->
              [pu \in PursuitIds |->
                 [present |->
                     HasLeaf(doc.booleans, <<"pursuits", pu, "active">>),
                  active |->
                     Leaf(doc.booleans, <<"pursuits", pu, "active">>, FALSE),
                  enabled |->
                     Leaf(doc.booleans, <<"pursuits", pu, "enabled">>,
                          FALSE)]]]
    IN  [k \in doc.keys |-> full[k]]

NoData ==
    [present |-> FALSE, doc |-> stringify(InitialState, 1)]

\* what a slot was written from
NotWritten ==
    [kind |-> None, state |-> InitialState, nextId |-> 1]

\* a save that leaves the id counter out of the data
saveData_withoutCounter(storage, slot, g, nextId) ==
    [storage EXCEPT ![slot] = [present |-> TRUE, doc |-> stringify(g, 1)]]

\* Game.save(slot): localStorage.setItem(key, JSON.stringify(data))
saveData(storage, slot, g, nextId) ==
    [storage EXCEPT ![slot] = [present |-> TRUE, doc |-> stringify(g, nextId)]]

\* Game.load(slot): the state and the counter of the parsed data
loadData(storage, slot) ==
    [game |-> parse(storage[slot].doc), nextId |-> storage[slot].doc.nextId]

\* a save written before the pursuits existed: delete data.state.pursuits
WithoutPursuits(doc) ==
    [doc EXCEPT !.keys = @ \ {"pursuits"},
                !.booleans = {l \in @ : l[1][1] # "pursuits"}]

SlotFlags == {"test_flag"}
SlotWeeks == {1, MaxWeek + 3}

NoOp == [op |-> None, slot |-> None, raised |-> FALSE]

InitSlots ==
    /\ state = [game |-> InitialState, nextId |-> 2]
    /\ screen = "actions"
    /\ creation = NoCreation
    /\ obs = [storage |-> [sl \in SlotIds |-> NoData],
              written |-> [sl \in SlotIds |-> NotWritten],
              saves |-> 0,
              last |-> NoOp]

\* Game.init()
SlInit ==
    /\ state' = [game |-> InitialState, nextId |-> 2]
    /\ obs' = [obs EXCEPT !.last = [NoOp EXCEPT !.op = "init"]]
    /\ UNCHANGED <<screen, creation>>

\* Game.setFlag(flag)
SlSetFlag(f) ==
    /\ state' = [state EXCEPT !.game = setFlag(@, f, TRUE)]
    /\ obs' = [obs EXCEPT !.last = [NoOp EXCEPT !.op = "setFlag"]]
    /\ UNCHANGED <<screen, creation>>

\* Game.state.week = w
SlSetWeek(w) ==
    /\ state' = [state EXCEPT !.game.week = w]
    /\ obs' = [obs EXCEPT !.last = [NoOp EXCEPT !.op = "setWeek"]]
    /\ UNCHANGED <<screen, creation>>

\* Game.generateId (createCharacter, createObject): nextId++
SlGenerateId ==
    /\ state.nextId < MaxIds
    /\ state' = [state EXCEPT !.nextId = @ + 1]
    /\ obs' = [obs EXCEPT !.last = [NoOp EXCEPT !.op = "generateId"]]
    /\ UNCHANGED <<screen, creation>>

\* Game.state.pursuits[p].enabled = !enabled
SlTogglePursuit(p) ==
    /\ Pursuits[p].configType = "toggle"
    /\ state.game.pursuits[p].present
    /\ state' = [state EXCEPT !.game.pursuits[p].enabled = ~@]
    /\ obs' = [obs EXCEPT !.last = [NoOp EXCEPT !.op = "toggle"]]
    /\ UNCHANGED <<screen, creation>>

\* Game.save(slot)
SlSave(slot) ==
    /\ obs' = [obs EXCEPT
                 !.storage = saveData(@, slot, state.game, state.nextId),
                 !.written[slot] = [kind |-> "save", state |-> state.game,
                                    nextId |-> state.nextId],
                 !.last = [NoOp EXCEPT !.op = "save", !.slot = slot]]
    /\ UNCHANGED <<state, screen, creation>>

\* Game.load(slot)
SlLoad(slot) ==
    /\ obs.storage[slot].present
    /\ state' = loadData(obs.storage, slot)
    /\ obs' = [obs EXCEPT !.last = [NoOp EXCEPT !.op = "load", !.slot = slot]]
    /\ UNCHANGED <<screen, creation>>

NextSlots ==
    \/ SlInit
    \/ \E f \in SlotFlags : SlSetFlag(f)
    \/ \E w \in SlotWeeks : SlSetWeek(w)
    \/ SlGenerateId
    \/ \E p \in PursuitIds : SlTogglePursuit(p)
    \/ \E slot \in SlotIds : SlSave(slot)
    \/ \E slot \in SlotIds : SlLoad(slot)

SpecSlots == InitSlots /\ [][NextSlots]_vars

(***************************************************************************)
(* Old saves: stored data written before the pursuits were added to the    *)
(* state.  One slot is saved, its data loses the pursuits, and the game    *)
(* goes on from the loaded state.                                          *)
(***************************************************************************)
\* Object.entries(game.state.pursuits) and game.state.pursuits[id] are
\* TypeErrors when the state has no pursuits
PursuitsMissing(g) == "pursuits" \notin DOMAIN g

\* ConditionChecker.check({ pursuitActive: id }): game.state.pursuits?.[id]
pursuitActive(g, pursuitId) ==
    IF PursuitsMissing(g) THEN FALSE
    ELSE /\ g.pursuits[pursuitId].present
         /\ g.pursuits[pursuitId].active
         /\ (Pursuits[pursuitId].configType = "toggle"
                => g.pursuits[pursuitId].enabled)

\* Game.save(slot), at most MaxSaves times
OsSave(slot) ==
    /\ obs.saves < MaxSaves
    /\ ~PursuitsMissing(state.game)
    /\ obs' = [obs EXCEPT
                 !.storage = saveData(@, slot, state.game, state.nextId),
                 !.written[slot] = [kind |-> "save", state |-> state.game,
                                    nextId |-> state.nextId],
                 !.saves = @ + 1,
                 !.last = [NoOp EXCEPT !.op = "save", !.slot = slot]]
    /\ UNCHANGED <<state, screen, creation>>

\* the stored data of a slot is that of a save without the pursuits
OsOldSave(slot) ==
    /\ obs.storage[slot].present
    /\ obs.written[slot].kind = "save"
    /\ obs' = [obs EXCEPT
                 !.storage[slot].doc = WithoutPursuits(@),
                 !.written[slot].kind = "old",
                 !.last = [NoOp EXCEPT !.op = "oldSave", !.slot = slot]]
    /\ UNCHANGED <<state, screen, creation>>

\* Game.load(slot)
OsLoad(slot) ==
    /\ obs.storage[slot].present
    /\ state' = loadData(obs.storage, slot)
    /\ obs' = [obs EXCEPT !.last = [NoOp EXCEPT !.op = "load", !.slot = slot]]
    /\ UNCHANGED <<screen, creation>>

\* Game.state.pursuits[p].enabled = !enabled, from the pursuit panel
OsTogglePursuit(p) ==
    /\ ~PursuitsMissing(state.game)
    /\ Pursuits[p].configType = "toggle"
    /\ state.game.pursuits[p].present
    /\ state' = [state EXCEPT !.game.pursuits[p].enabled = ~@]
    /\ obs' = [obs EXCEPT !.last = [NoOp EXCEPT !.op = "toggle"]]
    /\ UNCHANGED <<screen, creation>>

\* PursuitManager.calculatePursuitHours(Game)
OsCalculatePursuitHours ==
    /\ obs' = [obs EXCEPT !.last =
                 [op |-> "calculatePursuitHours", slot |-> None,
                  raised |-> PursuitsMissing(state.game)]]
    /\ UNCHANGED <<state, screen, creation>>

\* Game.resumeFromLoad(): showPursuitUI reads game.state.pursuits[id]
OsResumeFromLoad ==
    /\ obs.last.op = "load"
    /\ obs' = [obs EXCEPT !.last =
                 [op |-> "resumeFromLoad", slot |-> None,
                  raised |-> PursuitsMissing(state.game)]]
    /\ UNCHANGED <<state, screen, creation>>

\* Game.startWeek(): raises in calculateEffectiveActions before any change
OsStartWeek ==
    /\ obs.last.op \in {"load", "resumeFromLoad"}
    /\ IF PursuitsMissing(state.game)
       THEN /\ state' = state
            /\ obs' = [obs EXCEPT !.last =
                         [op |-> "startWeek", slot |-> None, raised |-> TRUE]]
       ELSE /\ \E r \in startWeek(state.game) :
                  state' = [state EXCEPT !.game = r.g]
            /\ obs' = [obs EXCEPT !.last =
                         [op |-> "startWeek", slot |-> None, raised |-> FALSE]]
    /\ UNCHANGED <<screen, creation>>

\* ConditionChecker.check({ pursuitActive: p }, Game)
OsCheckPursuitActive(p) ==
    /\ obs' = [obs EXCEPT !.last =
                 [op |-> IF pursuitActive(state.game, p)
                         THEN "pursuitActive" ELSE "pursuitNotActive",
                  slot |-> None, raised |-> FALSE]]
    /\ UNCHANGED <<state, screen, creation>>

NextOldSaves ==
    \/ \E slot \in SlotIds : OsSave(slot)
    \/ \E slot \in SlotIds : OsOldSave(slot)
    \/ \E slot \in SlotIds : OsLoad(slot)
    \/ \E p \in PursuitIds : OsTogglePursuit(p)
    \/ OsCalculatePursuitHours
    \/ OsResumeFromLoad
    \/ OsStartWeek
    \/ \E p \in PursuitIds : OsCheckPursuitActive(p)

SpecOldSaves == InitSlots /\ [][NextOldSaves]_vars

(***************************************************************************)
(* Entity ids: generateId hands out `${prefix}_${nextId++}` to characters  *)
(* and objects alike.  `state` holds the ids in use, as pairs of prefix    *)
(* and number, and the counter; `obs` the stored save and what the last    *)
(* operation did.                                                          *)
(***************************************************************************)
\* Game.init(): nextId = 1, then the player is created
InitialIds ==
    [characters |-> {<<"char", 1>>}, objects |-> {}, nextId |-> 2]

\* generateId that hands out the counter without advancing it
generateId_noAdvance(g, prefix) ==
    [id |-> <<prefix, g.nextId>>, g |-> g]

\* Game.generateId(prefix)
generateId(g, prefix) ==
    [id |-> <<prefix, g.nextId>>, g |-> [g EXCEPT !.nextId = @ + 1]]

\* Game.createCharacter: state.characters[id] = { ... }
createCharacterId(g) ==
    LET r == generateId(g, "char")
    IN  [id |-> r.id, g |-> [r.g EXCEPT !.characters = @ \cup {r.id}]]

\* Game.createObject: state.objects[id] = { ... }
createObjectId(g) ==
    LET r == generateId(g, "obj")
    IN  [id |-> r.id, g |-> [r.g EXCEPT !.objects = @ \cup {r.id}]]

IdsInUse(g) == g.characters \cup g.objects

NoIdOp == [op |-> None, id |-> <<None, 0>>, reused |-> FALSE, nextId |-> 0]

InitIds ==
    /\ state = InitialIds
    /\ screen = "ids"
    /\ creation = NoCreation
    /\ obs = [saved |-> [present |-> FALSE, state |-> InitialIds],
              last |-> NoIdOp]

\* Game.init()
IdInit ==
    /\ state' = InitialIds
    /\ obs' = [obs EXCEPT !.last = [NoIdOp EXCEPT !.op = "init"]]
    /\ UNCHANGED <<screen, creation>>

\* Game.createCharacter(templateType, name)
IdCreateCharacter ==
    /\ state.nextId <= MaxEntities
    /\ LET r == createCharacterId(state)
       IN  /\ state' = r.g
           /\ obs' = [obs EXCEPT !.last =
                        [op |-> "create", id |-> r.id,
                         reused |-> r.id \in IdsInUse(state),
                         nextId |-> state.nextId]]
    /\ UNCHANGED <<screen, creation>>

\* Game.createObject(templateType, name, initialState)
IdCreateObject ==
    /\ state.nextId <= MaxEntities
    /\ LET r == createObjectId(state)
       IN  /\ state' = r.g
           /\ obs' = [obs EXCEPT !.last =
                        [op |-> "create", id |-> r.id,
                         reused |-> r.id \in IdsInUse(state),
                         nextId |-> state.nextId]]
    /\ UNCHANGED <<screen, creation>>

\* Game.save(slot): { state, nextId }
IdSave ==
    /\ obs' = [saved |-> [present |-> TRUE, state |-> state],
               last |-> [NoIdOp EXCEPT !.op = "save"]]
    /\ UNCHANGED <<state, screen, creation>>

\* Game.load(slot): state = parsed.state; nextId = parsed.nextId
IdLoad ==
    /\ obs.saved.present
    /\ state' = obs.saved.state
    /\ obs' = [obs EXCEPT !.last = [NoIdOp EXCEPT !.op = "load"]]
    /\ UNCHANGED <<screen, creation>>

NextIds ==
    \/ IdInit
    \/ IdCreateCharacter
    \/ IdCreateObject
    \/ IdSave
    \/ IdLoad

SpecIds == InitIds /\ [][NextIds]_vars

(***************************************************************************)
(* Accessors and mutators of characters and objects, called with ids that  *)
(* exist and with ids that do not.  `state` holds the characters (stats,   *)
(* skills, deep skills, inventory, template type) and the objects; `obs`   *)
(* the last call: whether an id was unknown, whether it raised, whether    *)
(* it changed the state and whether what it returned was a neutral value.  *)
(***************************************************************************)
CharacterTemplates == {"player", "human"}

\* transformCharacter: char.templateType = ... is a TypeError when the
\* character does not exist; every stat is already defined on a character,
\* so the template's stats fill nothing in
transformCharacter(g, charId, newTemplateType) ==
    IF charId \notin CharIds
    THEN [raised |-> TRUE, g |-> g]
    ELSE [raised |-> FALSE,
          g |-> [g EXCEPT !.characters[charId].templateType = newTemplateType]]

\* getCharacterObjects: the ids of the inventory that are objects
getCharacterObjects(g, charId) ==
    IF charId \notin CharIds THEN <<>>
    ELSE SelectSeq(g.characters[charId].inventory,
                   LAMBDA id : getObject(g, id).exists)

AccessorChars == {playerId, "char_9"}
AccessorObjects == {0, 1}

InitAccessors ==
    /\ state = [characters |->
                  [c \in CharIds |->
                     [stats |-> NewCharacter.stats,
                      skills |-> NewCharacter.skills,
                      deepSkills |-> NewCharacter.deepSkills,
                      inventory |-> <<>>,
                      templateType |-> IF c = playerId
                                       THEN "player" ELSE "human"]],
                objects |-> [o \in ObjIds |-> NoObject],
                nextId |-> 1]
    /\ screen = "accessors"
    /\ creation = NoCreation
    /\ obs = [op |-> None, unknown |-> FALSE, raised |-> FALSE,
              changed |-> FALSE, neutral |-> TRUE]

\* a mutator `op` that took the state to `after`
Mutated(op, unknown, raised, after) ==
    /\ state' = after
    /\ obs' = [op |-> op, unknown |-> unknown, raised |-> raised,
               changed |-> after # state, neutral |-> TRUE]
    /\ UNCHANGED <<screen, creation>>

\* an accessor `op` that returned a neutral value or not
Accessed(op, unknown, neutral) ==
    /\ obs' = [op |-> op, unknown |-> unknown, raised |-> FALSE,
               changed |-> FALSE, neutral |-> neutral]
    /\ UNCHANGED <<state, screen, creation>>

AcCreateObject ==
    /\ state.nextId <= MaxObjects
    /\ Mutated("createObject", FALSE, FALSE, createObject(state))

AcTransformCharacter(c, t) ==
    LET r == transformCharacter(state, c, t)
    IN  Mutated("transformCharacter", c \notin CharIds, r.raised, r.g)

AcGiveObject(o, c) ==
    Mutated("giveObject", o \notin ObjIds \/ c \notin CharIds, FALSE,
            giveObject(state, o, c))

AcRemoveObject(o, c) ==
    Mutated("removeObject", o \notin ObjIds \/ c \notin CharIds, FALSE,
            removeObject(state, o, c))

AcGetObject(o) ==
    Accessed("getObject", o \notin ObjIds, ~getObject(state, o).exists)

AcGetCharacterObjects(c) ==
    Accessed("getCharacterObjects", c \notin CharIds,
             getCharacterObjects(state, c) = <<>>)

AcGetStat(c, st) ==
    Accessed("getStat", c \notin CharIds, getStat(state, c, st) = 0)

AcModifyStat(c) ==
    Mutated("modifyStat", c \notin CharIds, FALSE,
            modifyStat(state, c, "health", 150))

AcSetStat(c) ==
    Mutated("setStat", c \notin CharIds, FALSE, setStat(state, c, "money", 0))

AcGetSkill(c, sk) ==
    Accessed("getSkill", c \notin CharIds, getSkill(state, c, sk) = 0)

AcModifySkill(c, sk) ==
    /\ SkillInRange(modifySkill(state, c, sk, 10))
    /\ Mutated("modifySkill", c \notin CharIds, FALSE,
               modifySkill(state, c, sk, 10))

AcSetSkill(c, sk) ==
    Mutated("setSkill", c \notin CharIds, FALSE, setSkill(state, c, sk, 10))

AcHasDeepSkill(c) ==
    Accessed("hasDeepSkill", c \notin CharIds,
             ~hasDeepSkill(state, c, "hacking"))

AcAddDeepSkill(c) ==
    Mutated("addDeepSkill", c \notin CharIds, FALSE,
            addDeepSkill(state, c, "hacking"))

NextAccessors ==
    \/ AcCreateObject
    \/ \E c \in AccessorChars, t \in CharacterTemplates :
          AcTransformCharacter(c, t)
    \/ \E o \in AccessorObjects, c \in AccessorChars : AcGiveObject(o, c)
    \/ \E o \in AccessorObjects, c \in AccessorChars : AcRemoveObject(o, c)
    \/ \E o \in AccessorObjects : AcGetObject(o)
    \/ \E c \in AccessorChars : AcGetCharacterObjects(c)
    \/ \E c \in AccessorChars, st \in StatIds : AcGetStat(c, st)
    \/ \E c \in AccessorChars : AcModifyStat(c)
    \/ \E c \in AccessorChars : AcSetStat(c)
    \/ \E c \in AccessorChars, sk \in SkillIds : AcGetSkill(c, sk)
    \/ \E c \in AccessorChars, sk \in SkillIds : AcModifySkill(c, sk)
    \/ \E c \in AccessorChars, sk \in SkillIds : AcSetSkill(c, sk)
    \/ \E c \in AccessorChars : AcHasDeepSkill(c)
    \/ \E c \in AccessorChars : AcAddDeepSkill(c)

SpecAccessors == InitAccessors /\ [][NextAccessors]_vars

(***************************************************************************)
(* Predicates with combinators.  A predicate carries its own conditions    *)
(* (the fields ConditionCheck reads, and pursuitHours) and the combinators *)
(* all, any and not, each holding predicates again.  An absent combinator  *)
(* is the empty sequence.  The evaluation hands the game on from one read  *)
(* to the next, so that a read which wrote would show.                     *)
(***************************************************************************)
NoCompare == [op |-> None, value |-> 0]

Pred(c, hours, subsAll, subsAny, subNot) ==
    [cond |-> c, pursuitHours |-> hours,
     all |-> subsAll, any |-> subsAny, not |-> subNot]

Only(c) == Pred(c, NoCompare, <<>>, <<>>, <<>>)
Hours(op, value) ==
    Pred(NoCond, [op |-> op, value |-> value], <<>>, <<>>, <<>>)
AllOf(subs) == Pred(NoCond, NoCompare, subs, <<>>, <<>>)
AnyOf(subs) == Pred(NoCond, NoCompare, <<>>, subs, <<>>)
NotOf(sub) == Pred(NoCond, NoCompare, <<>>, <<>>, <<sub>>)

\* ConditionChecker.compare
compare(current, op, target) ==
    CASE op = "<" -> current < target
      [] op = "<=" -> current <= target
      [] op = ">" -> current > target
      [] op = ">=" -> current >= target
      [] op \in {"==", "="} -> current = target
      [] op \in {"!=", "<>"} -> current # target
      [] OTHER -> FALSE

\* a variant that takes the flags it finds set out of the game
checkOwn_consumesFlags(c, g) ==
    [result |-> /\ ConditionCheck(c.cond, g)
                /\ (c.pursuitHours.op # None =>
                      compare(calculatePursuitHours(g), c.pursuitHours.op,
                              c.pursuitHours.value)),
     g |-> [g EXCEPT !.flags = @ \ c.cond.hasFlag]]

\* the predicate's own conditions: every one is a read of the game
checkOwn(c, g) ==
    [result |-> /\ ConditionCheck(c.cond, g)
                /\ (c.pursuitHours.op # None =>
                      compare(calculatePursuitHours(g), c.pursuitHours.op,
                              c.pursuitHours.value)),
     g |-> g]

RECURSIVE checkPred(_, _)
RECURSIVE checkAllFrom(_, _, _)
RECURSIVE checkAnyFrom(_, _, _)

\* all: the first failing predicate ends the loop
checkAllFrom(i, subs, g) ==
    IF i > Len(subs) THEN [result |-> TRUE, g |-> g]
    ELSE LET r == checkPred(subs[i], g)
         IN  IF ~r.result THEN r ELSE checkAllFrom(i + 1, subs, r.g)

\* any: the first passing predicate ends the loop
checkAnyFrom(i, subs, g) ==
    IF i > Len(subs) THEN [result |-> FALSE, g |-> g]
    ELSE LET r == checkPred(subs[i], g)
         IN  IF r.result THEN r ELSE checkAnyFrom(i + 1, subs, r.g)

\* ConditionChecker.check: own conditions, then all, any, not
checkPred(c, g) ==
    LET own == checkOwn(c, g)
    IN  IF ~own.result THEN own
        ELSE LET a == checkAllFrom(1, c.all, own.g)
             IN  IF ~a.result THEN a
                 ELSE LET y == IF c.any = <<>> THEN a
                               ELSE checkAnyFrom(1, c.any, a.g)
                      IN  IF ~y.result \/ c.not = <<>> THEN y
                          ELSE LET n == checkPred(c.not[1], y.g)
                               IN  [result |-> ~n.result, g |-> n.g]

\* how deep the combinators of a predicate nest
RECURSIVE Depth(_)
MaxOf(S) == IF S = {} THEN 0 ELSE CHOOSE x \in S : \A y \in S : y <= x
Depth(c) ==
    LET subs == c.all \o c.any \o c.not
    IN  IF subs = <<>> THEN 0
        ELSE 1 + MaxOf({Depth(subs[i]) : i \in 1 .. Len(subs)})

PWin == Only(HasFlag("win"))
PEven == Only(WeekDivisibleBy(2))
PBusy == Hours(">=", 10)

Predicates ==
    << PWin, PEven, PBusy,
       NotOf(PWin),
       AllOf(<<PWin, PEven>>),
       AnyOf(<<PWin, PBusy>>),
       NotOf(AnyOf(<<PWin, PEven>>)),
       AllOf(<<NotOf(PWin), AnyOf(<<PEven, PBusy>>)>>),
       NotOf(NotOf(NotOf(PWin))),
       AnyOf(<<AllOf(<<PWin, PEven>>), NotOf(PBusy)>>),
       AllOf(<<AnyOf(<<NotOf(AllOf(<<PWin, PBusy>>)), PEven>>)>>),
       Pred(HasFlag("win"), [op |-> "<", value |-> 10],
            <<PEven>>, <<NotOf(PEven), PWin>>, <<NotOf(PWin)>>) >>

NoPredicate == [op |-> None, pred |-> 0, result |-> FALSE, changed |-> FALSE]

InitPredicates ==
    /\ state = InitialState
    /\ screen = "predicates"
    /\ creation = NoCreation
    /\ obs = NoPredicate

PrSetFlag(f, v) ==
    /\ state' = setFlag(state, f, v)
    /\ state' # state
    /\ obs' = NoPredicate
    /\ UNCHANGED <<screen, creation>>

PrNextWeek ==
    /\ state.week <= MaxWeek
    /\ state' = [state EXCEPT !.week = @ + 1]
    /\ obs' = NoPredicate
    /\ UNCHANGED <<screen, creation>>

PrTogglePursuit(p) ==
    /\ Pursuits[p].configType = "toggle"
    /\ state.pursuits[p].present
    /\ state' = [state EXCEPT !.pursuits[p].enabled = ~@]
    /\ obs' = NoPredicate
    /\ UNCHANGED <<screen, creation>>

\* ConditionChecker.check(Predicates[i], Game)
PrCheck(i) ==
    LET r == checkPred(Predicates[i], state)
    IN  /\ state' = r.g
        /\ obs' = [op |-> "check", pred |-> i, result |-> r.result,
                   changed |-> r.g # state]
        /\ UNCHANGED <<screen, creation>>

NextPredicates ==
    \/ \E f \in {"win", "lose"}, v \in BOOLEAN : PrSetFlag(f, v)
    \/ PrNextWeek
    \/ \E p \in PursuitIds : PrTogglePursuit(p)
    \/ \E i \in 1 .. Len(Predicates) : PrCheck(i)

SpecPredicates == InitPredicates /\ [][NextPredicates]_vars

(***************************************************************************)
(* Skill effects through the effect executor.  The executor handles the    *)
(* effect types it names and passes over every other key of an effect, so  *)
(* modifySkill, setSkill and addDeepSkill reach ApplyEffect's last branch. *)
(* `obs` holds the effect executed and the looked-up skill before it.      *)
(***************************************************************************)
SkillEffects ==
    { Eff("modifySkill", "computers", 10), Eff("modifySkill", "hacking", 10),
      Eff("setSkill", "computers", 5), Eff("addDeepSkill", "hacking", 0) }

StatEffects == { Eff("modifyStat", "money", 10), Eff("modifyStat", "money", -10) }

NoEffectRun == [op |-> None, effect |-> Eff(None, None, 0), before |-> 0]

InitSkillEffects ==
    /\ state = [characters |-> [c \in CharIds |-> NewCharacter]]
    /\ screen = "effects"
    /\ creation = NoCreation
    /\ obs = NoEffectRun

\* Game.modifySkill / Game.setSkill / Game.addDeepSkill called directly
SeModifySkill(sk, d) ==
    /\ SkillInRange(modifySkill(state, playerId, sk, d))
    /\ state' = modifySkill(state, playerId, sk, d)
    /\ obs' = NoEffectRun
    /\ UNCHANGED <<screen, creation>>

SeSetSkill(sk, v) ==
    /\ state' = setSkill(state, playerId, sk, v)
    /\ obs' = NoEffectRun
    /\ UNCHANGED <<screen, creation>>

SeAddDeepSkill(sk) ==
    /\ state' = addDeepSkill(state, playerId, sk)
    /\ obs' = NoEffectRun
    /\ UNCHANGED <<screen, creation>>

\* EffectExecutor.execute([effect], Game)
SeExecute(e) ==
    /\ e.op = "modifyStat" =>
          getStat(state, playerId, e.a) + e.b \in 0 .. StatCap
    /\ state' = Execute(<<e>>, state)
    /\ obs' = [op |-> "execute", effect |-> e,
               before |-> IF e.op = "modifyStat"
                          THEN getStat(state, playerId, e.a)
                          ELSE getSkill(state, playerId, e.a)]
    /\ UNCHANGED <<screen, creation>>

NextSkillEffects ==
    \/ \E sk \in SkillIds, d \in {10, -10} : SeModifySkill(sk, d)
    \/ \E sk \in SkillIds, v \in {0, 5} : SeSetSkill(sk, v)
    \/ \E sk \in {"hacking"} : SeAddDeepSkill(sk)
    \/ \E e \in SkillEffects \cup StatEffects : SeExecute(e)

SpecSkillEffects == InitSkillEffects /\ [][NextSkillEffects]_vars

(***************************************************************************)
(* The end of a week as the action buttons offer it.  The action table     *)
(* here has an action that costs two actions and one whose conditions stop *)
(* holding; the week machinery is that of the save specification.          *)
(***************************************************************************)
WeekActionIds == {"bigJob", "rest", "think"}

WeekActions ==
    [a \in WeekActionIds |->
        CASE a = "bigJob" ->
               [actionCost |-> 2, conditions |-> NoCond,
                effects |-> <<Eff("setFlag", "worked", None)>>]
          [] a = "rest" ->
               [actionCost |-> 1,
                conditions |-> [NoCond EXCEPT !.defined = TRUE,
                                              !.notFlag = {"worked"}],
                effects |-> <<Eff("setFlag", "rested", None)>>]
          [] a = "think" ->
               [actionCost |-> 0,
                conditions |-> [NoCond EXCEPT !.defined = TRUE,
                                              !.notFlag = {"thought"}],
                effects |-> <<Eff("setFlag", "thought", None)>>]]

\* collectAvailableActions
collectAvailableActions(g) ==
    {a \in WeekActionIds : ConditionCheck(WeekActions[a].conditions, g)}

\* renderActions: a button is disabled when the action has a cost and the
\* actions remaining are fewer
Enabled(g, a) ==
    WeekActions[a].actionCost # 0 =>
       g.actionsRemaining >= WeekActions[a].actionCost

\* renderActions: the end-week button is added when no action remains
EndWeekOffered(g) == g.actionsRemaining = 0

\* Game.executeAction for an action without handler
EwExecuteAction(a) ==
    /\ screen = "actions"
    /\ a \in collectAvailableActions(state)
    /\ Enabled(state, a)
    /\ LET g0 == [state EXCEPT !.actionsRemaining = @ - WeekActions[a].actionCost]
           g1 == Execute(WeekActions[a].effects, g0)
       IN  state' = LoopSeq(g1, FixedRandom).g
    /\ UNCHANGED <<screen, creation, obs>>

\* the end-week button: Game.endWeek
EwEndWeek ==
    /\ screen = "actions"
    /\ EndWeekOffered(state)
    /\ state.week <= MaxWeek
    /\ state' = endWeek(state)
    /\ obs' = [obs EXCEPT !.slots = save(@, "autosave", endWeek(state), obs.evals)]
    /\ screen' = "savePrompt"
    /\ UNCHANGED creation

NextEndWeek ==
    \/ \E a \in WeekActionIds : EwExecuteAction(a)
    \/ EwEndWeek
    \/ SvDismissSavePrompt
    \/ \E p \in PursuitIds : SvTogglePursuit(p)
    \/ SvConfirmPursuits

SpecEndWeek == InitSaves /\ [][NextEndWeek]_vars

(***************************************************************************)
(* Deactivation step by step.  deactivatePursuit runs the exit effects     *)
(* and only then marks the pursuit inactive, so an endPursuit effect        *)
(* reached meanwhile finds it active.  `state.stack` holds the calls of     *)
(* deactivatePursuit in progress: the pursuit, the position in its exit     *)
(* effects, and whether the pursuit's state object has been replaced (by    *)
(* activatePursuit) since the call read it.  A call stack deeper than       *)
(* MaxDepth stands for the engine's stack overflow.                         *)
(***************************************************************************)
MaxDepth == 4

ExitPursuitIds == {"loop_job", "ping", "pong", "plain", "side"}

ExitEffects ==
    [p \in ExitPursuitIds |->
        CASE p = "loop_job" -> <<Eff("setFlag", "quit", None),
                                 Eff("endPursuit", "loop_job", None)>>
          [] p = "ping" -> <<Eff("endPursuit", "pong", None)>>
          [] p = "pong" -> <<Eff("endPursuit", "ping", None)>>
          [] p = "plain" -> <<Eff("startPursuit", "side", None),
                              Eff("endPursuit", "side", None)>>
          [] p = "side" -> <<Eff("setFlag", "done", None)>>]

Frame(p) == [pursuit |-> p, pc |-> 1, replaced |-> FALSE]

InitExit ==
    /\ state = [active |-> [p \in ExitPursuitIds |-> FALSE],
                flags |-> {},
                stack |-> <<>>]
    /\ screen = "pursuits"
    /\ creation = NoCreation
    /\ obs = [overflow |-> FALSE, calls |-> 0]

\* PursuitManager.activatePursuit: a new state object, active
XActivate(p) ==
    /\ state.stack = <<>>
    /\ ~state.active[p]
    /\ state' = [state EXCEPT !.active[p] = TRUE]
    /\ obs' = [overflow |-> FALSE, calls |-> 0]
    /\ UNCHANGED <<screen, creation>>

\* PursuitManager.deactivatePursuit, entered from outside
XDeactivate(p) ==
    /\ state.stack = <<>>
    /\ state.active[p]
    /\ state' = [state EXCEPT !.stack = <<Frame(p)>>]
    /\ obs' = [overflow |-> FALSE, calls |-> 1]
    /\ UNCHANGED <<screen, creation>>

\* the innermost call finishes: state.active = false on the object it read
XReturn ==
    /\ state.stack # <<>>
    /\ LET n == Len(state.stack)
           top == state.stack[n]
       IN  /\ top.pc > Len(ExitEffects[top.pursuit])
           /\ state' = [state EXCEPT
                          !.stack = SubSeq(@, 1, n - 1),
                          !.active[top.pursuit] =
                             IF top.replaced THEN @ ELSE FALSE]
    /\ UNCHANGED <<screen, creation, obs>>

\* the innermost call executes its next exit effect
XEffect ==
    /\ state.stack # <<>>
    /\ LET n == Len(state.stack)
           top == state.stack[n]
       IN  /\ top.pc <= Len(ExitEffects[top.pursuit])
           /\ LET e == ExitEffects[top.pursuit][top.pc]
                  next == [state EXCEPT !.stack[n].pc = @ + 1]
              IN  CASE e.op = "setFlag" ->
                         /\ state' = [next EXCEPT !.flags = @ \cup {e.a}]
                         /\ obs' = obs
                    [] e.op = "startPursuit" ->
                         /\ state' =
                              [next EXCEPT
                                 !.active[e.a] = TRUE,
                                 !.stack =
                                    [i \in 1 .. n |->
                                       IF @[i].pursuit = e.a
                                       THEN [@[i] EXCEPT !.replaced = TRUE]
                                       ELSE @[i]]]
                         /\ obs' = obs
                    [] e.op = "endPursuit" /\ ~state.active[e.a] ->
                         /\ state' = next
                         /\ obs' = obs
                    [] e.op = "endPursuit" /\ state.active[e.a] /\ n < MaxDepth ->
                         /\ state' = [next EXCEPT !.stack = Append(@, Frame(e.a))]
                         /\ obs' = [obs EXCEPT !.calls = @ + 1]
                    [] OTHER ->
                         \* the call stack is exhausted: the exception unwinds
                         \* every call, and no call marks its pursuit inactive
                         /\ state' = [state EXCEPT !.stack = <<>>]
                         /\ obs' = [obs EXCEPT !.overflow = TRUE]
    /\ UNCHANGED <<screen, creation>>

NextExit ==
    \/ \E p \in ExitPursuitIds : XActivate(p)
    \/ \E p \in ExitPursuitIds : XDeactivate(p)
    \/ XReturn
    \/ XEffect

SpecExit == InitExit /\ [][NextExit]_vars

(***************************************************************************)
(* Properties                                                              *)
(***************************************************************************)
\* C1: within one week an event with probability below 1 fires at most
\* once, and the schedule entry of one that has fired is marked fired.
C1_FiresAtMostOncePerWeek ==
    \A e \in {x \in EventIds : Events[x].probability \in 0 .. (RandDen - 1)} :
        /\ obs.firedCount[e] <= 1
        /\ (obs.firedCount[e] = 1 /\ state.eventSchedule[e].present) =>
              state.eventSchedule[e].triggered

\* C2: an event with probability below 1 and no conditions has fired
\* exactly once by the end of a week in which its roll passed, and not at
\* all by the end of a week in which its roll failed (no other event having
\* taken an evaluation from it).
C2_FiresOnceWhenRollPasses ==
    \A e \in {x \in EventIds : Events[x].probability \in 0 .. (RandDen - 1)} :
        (/\ screen = "savePrompt"
         /\ ~Events[e].conditions.defined
         /\ state.eventSchedule[e].present
         /\ (\A other \in EventIds \ {e} : obs.firedCount[other] = 0))
        => IF state.eventSchedule[e].passed
           THEN obs.firedCount[e] = 1
           ELSE obs.firedCount[e] = 0

\* C3: in a step that starts no week, an entry of the event schedule stays
\* as it is, except that its fired marker may go from false to true.
C3_ScheduleAppendOnly ==
    [][obs'.weekStarts = obs.weekStarts =>
         \A e \in EventIds :
            state.eventSchedule[e].present =>
               \/ state'.eventSchedule[e] = state.eventSchedule[e]
               \/ /\ ~state.eventSchedule[e].triggered
                  /\ state'.eventSchedule[e] =
                        [state.eventSchedule[e] EXCEPT !.triggered = TRUE]]_vars

\* C3 witness: a failed roll is still recorded at a later evaluation of the
\* same week, and another entry has been marked fired.
C3_Witness ==
    \E e \in EventIds, f \in EventIds :
        /\ state.eventSchedule[e].present
        /\ ~state.eventSchedule[e].passed
        /\ obs.lastEval.num > obs.rolledAt[e].num
        /\ state.eventSchedule[f].triggered

\* C4: the event fired by the last evaluation, if its probability is below
\* 1, had its conditions holding, was not completed, had a schedule entry
\* with a passed roll that was not missed, and its trigger point had been
\* reached.
C4_FiresOnlyWhenScheduled ==
    (/\ obs.lastEval.winner \in EventIds
     /\ Events[obs.lastEval.winner].probability \in 0 .. (RandDen - 1)) =>
        /\ obs.lastEval.condHeld
        /\ ~obs.lastEval.wasCompleted
        /\ obs.lastEval.entry.present
        /\ obs.lastEval.entry.passed
        /\ ~obs.lastEval.entry.missed
        /\ obs.lastEval.entry.triggerAt * obs.lastEval.den
              <= obs.lastEval.num * RandDen

\* C5: an entry with a passed roll is marked missed exactly when its trigger
\* point is below the progress at which it was rolled; a missed event has not
\* fired; and an event whose roll passed and was not missed has fired by the
\* end of the week (so that it fires with probability p * (1 - p0)).
C5_MissedIffTriggerBelowProgress ==
    \A e \in EventIds :
        (state.eventSchedule[e].present /\ state.eventSchedule[e].passed) =>
            /\ state.eventSchedule[e].missed <=>
                  state.eventSchedule[e].triggerAt * obs.rolledAt[e].den
                     < obs.rolledAt[e].num * RandDen
            /\ state.eventSchedule[e].missed => obs.firedCount[e] = 0
            /\ (/\ screen = "savePrompt"
                /\ ~state.eventSchedule[e].missed
                /\ e \notin state.completedEvents
                /\ ConditionCheck(Events[e].conditions, state)
                /\ (\A other \in EventIds \ {e} : obs.firedCount[other] = 0))
               => obs.firedCount[e] = 1

\* C6: every schedule entry was rolled in the current week; right after a
\* week start every entry was rolled at progress 0 of the new week, the only
\* fired marker is that of the event the week-start evaluation fired, and
\* every event that was due a roll at the week start has an entry.
C6_ScheduleResetAtWeekStart ==
    /\ \A e \in EventIds :
          state.eventSchedule[e].present =>
             obs.rolledAt[e].ws = obs.weekStarts
    /\ obs.lastEval.weekStart =>
          /\ \A e \in EventIds :
                state.eventSchedule[e].present =>
                   /\ obs.rolledAt[e].num = 0
                   /\ state.eventSchedule[e].triggered =>
                         obs.lastEval.winner = e
          /\ \A e \in obs.lastEval.due : state.eventSchedule[e].present

\* C6 witness: a second week has started and an event scheduled in the first
\* week holds an entry rolled at the start of the second.
C6_Witness ==
    /\ obs.weekStarts >= 1
    /\ obs.lastEval.weekStart
    /\ "test_event" \in obs.lastEval.due
    /\ state.eventSchedule["test_event"].present
    /\ obs.rolledAt["test_event"].ws = obs.weekStarts

\* C7: when the last storyline pass found both the fail and the advance
\* condition of a storyline's chapter holding, the storyline moved to the
\* fail target.
C7_FailPrecedesAdvance ==
    \A s \in StoryIds :
        (obs.storyLog[s].failHeld /\ obs.storyLog[s].advHeld) =>
            /\ obs.storyLog[s].to =
                  Stories[s].chapters[obs.storyLog[s].from].failTo
            /\ state.storylines[s].currentChapter =
                  Stories[s].chapters[obs.storyLog[s].from].failTo

\* C7 witness: the objective storyline was evaluated with both conditions
\* holding and stands on its failure chapter.
C7_Witness ==
    /\ obs.storyLog["testObj"].failHeld
    /\ obs.storyLog["testObj"].advHeld
    /\ obs.storyLog["testObj"].from = "active"
    /\ state.storylines["testObj"].currentChapter = "failure"

\* C8: once a storyline is completed its current chapter never changes.
C8_CompletedChapterFrozen ==
    [][\A s \in StoryIds :
          state.storylines[s].completed =>
             state'.storylines[s].currentChapter =
                state.storylines[s].currentChapter]_vars

\* C9: the completion effects of a storyline have run at most once, and
\* exactly once when the storyline is completed.
C9_CompletionRunsOnce ==
    \A s \in StoryIds :
        /\ obs.completionRuns[s] <= 1
        /\ state.storylines[s].completed => obs.completionRuns[s] = 1

\* C10: the game loop has run exactly once for the last executed action once
\* the action is over, and not at all while the action is suspended on the
\* creation flow.
C10_LoopRunsOncePerAction ==
    /\ screen = "creation" => obs.acting # None /\ obs.loopRuns = 0
    /\ (screen # "creation" /\ obs.acting # None) => obs.loopRuns = 1

\* C10 witness: the action suspended on the creation flow has been resumed
\* by the flow's completion.
C10_Witness ==
    /\ screen = "actions"
    /\ obs.acting = "beginJourney"
    /\ "character_created" \in state.flags
    /\ obs.loopRuns = 1

C12_HighestPriorityFirstFound ==
    LET eligible == obs.lastEval.eligible
        winner == obs.lastEval.winner
    IN  /\ winner = None <=> Len(eligible) = 0
        /\ obs.lastEval.marked \subseteq {winner}
        /\ winner # None =>
              \E i \in 1 .. Len(eligible) :
                 /\ eligible[i] = winner
                 /\ \A j \in 1 .. Len(eligible) :
                       PriorityOf(eligible[j]) <= PriorityOf(winner)
                 /\ \A j \in 1 .. (i - 1) :
                       PriorityOf(eligible[j]) < PriorityOf(winner)

\* C12 witness: two events of equal, highest priority were eligible and the
\* one defined first fired.
C12_Witness ==
    /\ obs.lastEval.eligible = <<"test_event", "late_event">>
    /\ PriorityOf("test_event") = PriorityOf("late_event")
    /\ obs.lastEval.winner = "test_event"

\* C13: after an evaluation, every eligible event that lost is in the
\* completed-event set if its policy is 'remove', and otherwise is not in
\* it and its schedule entry is not marked fired; a completed event stays
\* completed, does not fire and gets no new schedule entry; and an event
\* that lost without being removed is eligible again at the next evaluation
\* of the week if its conditions hold there.
C13_SupersedePolicy ==
    [][LET Lost(log) == {log.eligible[i] : i \in 1 .. Len(log.eligible)}
                           \ {log.winner}
       IN  /\ \A e \in Lost(obs'.lastEval) :
                 IF Events[e].onSuperseded = "remove"
                 THEN e \in state'.completedEvents
                 ELSE /\ e \notin state'.completedEvents
                      /\ ~state'.eventSchedule[e].triggered
           /\ \A e \in state.completedEvents :
                 /\ e \in state'.completedEvents
                 /\ obs'.firedCount[e] <= obs.firedCount[e]
                 /\ state'.eventSchedule[e].present =>
                       state'.eventSchedule[e] = state.eventSchedule[e]
           /\ (screen \in {"actions", "creation"} /\ screen' = "actions") =>
                 \A e \in Lost(obs.lastEval) :
                    (/\ Events[e].onSuperseded # "remove"
                     /\ e \in obs'.lastEval.holding)
                    => \E i \in 1 .. Len(obs'.lastEval.eligible) :
                          obs'.lastEval.eligible[i] = e]_vars

\* C13 witness: a 'remove' event that lost in the first week is completed
\* and, with its conditions holding, is not eligible at the start of the
\* second week, where an event without that policy lost and stays out of
\* the completed-event set.
C13_Witness ==
    /\ obs.weekStarts >= 1
    /\ obs.lastEval.weekStart
    /\ "late_event" \in state.completedEvents
    /\ "late_event" \in obs.lastEval.holding
    /\ obs.lastEval.eligible = <<"test_event", "billDue">>
    /\ obs.lastEval.winner = "billDue"
    /\ "test_event" \notin state.completedEvents

\* C14: every stat of every character is within the bounds the registry
\* declares for it.
C14_StatsWithinBounds ==
    \A c \in CharIds, s \in StatIds :
        /\ StatDefinitions[s].hasMin =>
              state.characters[c].stats[s] >= StatDefinitions[s].min
        /\ StatDefinitions[s].hasMax =>
              state.characters[c].stats[s] <= StatDefinitions[s].max

\* C14 witness: a change asked for a value above the declared maximum and
\* the stat stands at the maximum, while another stat was held at its
\* minimum.
C14_Witness ==
    /\ obs.char \in CharIds
    /\ obs.stat = "health"
    /\ obs.asked = "above"
    /\ state.characters[obs.char].stats["health"] = StatDefinitions["health"].max
    /\ \E c \in CharIds : state.characters[c].stats["money"] = 0

\* C15: every object is in the inventory of at most one character (and at
\* most once there), and an object just given to a character is in that
\* character's inventory and in nobody else's, its previous owner included.
C15_SingleOwner ==
    /\ \A o \in ObjIds :
          Cardinality({<<c, i>> \in CharIds \X (1..MaxObjects) :
                          /\ i <= Len(state.characters[c].inventory)
                          /\ state.characters[c].inventory[i] = o}) <= 1
    /\ (obs.op = "give" /\ obs.char \in CharIds /\ getObject(state, obs.obj).exists) =>
          /\ Includes(state.characters[obs.char].inventory, obs.obj)
          /\ \A c \in CharIds \ {obs.char} :
                ~Includes(state.characters[c].inventory, obs.obj)

\* C15 witness: an object owned by one character has just been given to
\* another.
C15_Witness ==
    /\ obs.op = "give"
    /\ obs.prev \in CharIds
    /\ obs.char \in CharIds \ {obs.prev}
    /\ Includes(state.characters[obs.char].inventory, obs.obj)
    /\ state.objects[obs.obj].ownerId = obs.char

\* C16: the actions remaining stay between 0 and the budget recorded at the
\* week's start, so that week progress used / (weekStartActions + 1) is at
\* least 0 and strictly below 1; progress is 0 right after a week start and
\* within a week no step makes it smaller.
C16_WeekProgressBounded ==
    [][ /\ state'.actionsRemaining >= 0
        /\ state'.actionsRemaining <= state'.weekStartActions
        /\ getWeekProgress(state').num >= 0
        /\ getWeekProgress(state').num < getWeekProgress(state').den
        /\ obs'.weekStarts # obs.weekStarts =>
              getWeekProgress(state').num = 0
        /\ obs'.weekStarts = obs.weekStarts =>
              getWeekProgress(state').num * getWeekProgress(state).den
                 >= getWeekProgress(state).num * getWeekProgress(state').den
      ]_vars

\* C16 witness: in a week after the first, with a budget of at least two,
\* every action has been used, and an action that costs one is on offer
\* with its button disabled.
C16_Witness ==
    /\ obs.weekStarts >= 1
    /\ screen = "actions"
    /\ state.weekStartActions >= 2
    /\ state.actionsRemaining = 0
    /\ ConditionCheck(Actions["doLose"].conditions, state)
    /\ Actions["doLose"].actionCost = 1

\* C17: the draws a call consumes are the injected values in order, one
\* each; every event that gets a schedule entry consumes one draw for its
\* roll and, exactly when the roll passed, the next draw for its trigger
\* point; rolls happen in definition order; an event that had an entry, is
\* retired, is ineligible or has probability 1 consumes nothing; and the
\* schedule that results is the one those draws determine.
C17_DrawOrder ==
    LET L == obs.log
        before == obs.input.eventSchedule
        after == obs.scheduled.eventSchedule
        New == {id \in EventIds : ~before[id].present /\ after[id].present}
        Pos(id) == CHOOSE k \in 1..Len(EventOrder) : EventOrder[k] = id
        At(id, kind) == {i \in 1..Len(L) : L[i].id = id /\ L[i].kind = kind}
    IN  obs.ran =>
        /\ \A i \in 1..Len(L) : L[i].value = obs.values[i]
        /\ \A i \in 1..Len(L) :
              \/ L[i].kind = "bonus" /\ i = 1 /\ obs.weekStart
              \/ L[i].kind = "roll" /\ L[i].id \in EventIds
              \/ /\ L[i].kind = "trigger" /\ i > 1
                 /\ L[i - 1].kind = "roll" /\ L[i - 1].id = L[i].id
        /\ \A id \in EventIds :
              /\ Cardinality(At(id, "roll")) = (IF id \in New THEN 1 ELSE 0)
              /\ Cardinality(At(id, "trigger")) =
                    (IF id \in New /\ after[id].passed THEN 1 ELSE 0)
              /\ (\/ before[id].present
                  \/ id \in obs.input.completedEvents
                  \/ ~ConditionCheck(Events[id].conditions, obs.input)
                  \/ Events[id].probability = RandDen)
                 => At(id, "roll") \cup At(id, "trigger") = {}
        /\ \A i, j \in 1..Len(L) :
              (i < j /\ L[i].kind = "roll" /\ L[j].kind = "roll")
                 => Pos(L[i].id) < Pos(L[j].id)
        /\ \A i \in 1..Len(L) :
              /\ L[i].kind = "roll" =>
                    (after[L[i].id].passed <=>
                        ~(L[i].value > Events[L[i].id].probability))
              /\ L[i].kind = "trigger" => after[L[i].id].triggerAt = L[i].value
        /\ obs.scheduled \in scheduleNewEvents(obs.input)

\* C17 witness: one call rolled two events in definition order, the first
\* failing its roll and consuming one draw, the second passing and
\* consuming two, while a probability-1 event was eligible.
C17_Witness ==
    /\ Len(obs.log) = 3
    /\ obs.log[1] = [id |-> "test_event", kind |-> "roll",
                     value |-> RandDen - 1]
    /\ obs.log[2].id = "late_event" /\ obs.log[2].kind = "roll"
    /\ obs.log[3].id = "late_event" /\ obs.log[3].kind = "trigger"
    /\ obs.scheduled.eventSchedule["late_event"].passed
    /\ Eligible("billDue", obs.scheduled)

\* C18 (the part of "exactly once" that fails): for the week being played,
\* the budget has been established at most once and no pursuit's weekly
\* effects have been applied more than once.
C18_AtMostOncePerWeek ==
    /\ obs.evals.budget <= 1
    /\ \A p \in PursuitIds : obs.evals.weekly[p] <= 1

\* C19: for every total of hours h, guaranteed + bonus chance equals
\* max(0, base - max(0, h - free) / ratio), guaranteed is a non-negative
\* integer and 0 <= bonus chance < 1 (all over the common denominator
\* HOURS_PER_ACTION); h at or below the free budget gives the full base and
\* bonus chance 0; h = 62 gives 2 guaranteed and bonus chance 8/20 = 0.4.
C19_BudgetFormula ==
    state.computed =>
        LET h == state.pursuitHours
            over == IF h > FREE_HOURS THEN h - FREE_HOURS ELSE 0
            left == actionsPerPeriod * HOURS_PER_ACTION - over
        IN  /\ state.guaranteed * HOURS_PER_ACTION + state.bonusNum
                  = (IF left > 0 THEN left ELSE 0)
            /\ state.guaranteed \in Nat
            /\ state.bonusNum >= 0 /\ state.bonusNum < HOURS_PER_ACTION
            /\ h <= FREE_HOURS =>
                  state.guaranteed = actionsPerPeriod /\ state.bonusNum = 0
            /\ (h = 62 /\ FREE_HOURS = 50 /\ HOURS_PER_ACTION = 20) =>
                  state.guaranteed = 2 /\ state.bonusNum * 10 = 4 * HOURS_PER_ACTION

\* C19 witness: the budget has been computed for h = 62.
C19_Witness ==
    /\ state.computed
    /\ state.pursuitHours = 62
    /\ state.guaranteed = 2
    /\ state.bonusNum = 8

\* C20: a week starts with the guaranteed actions or one more; the extra
\* action is there only when the bonus chance is positive and the one draw
\* made for it fell below the chance; no call makes a second bonus draw.
C20_SingleBonusDraw ==
    (obs.ran /\ obs.weekStart) =>
        LET budget == obs.input.weekStartActions
            bonus == {i \in 1..Len(obs.log) : obs.log[i].kind = "bonus"}
        IN  /\ budget \in {obs.actions.guaranteed, obs.actions.guaranteed + 1}
            /\ obs.input.actionsRemaining = budget
            /\ Cardinality(bonus) <= 1
            /\ budget = obs.actions.guaranteed + 1 =>
                  /\ obs.actions.bonusNum > 0
                  /\ bonus = {1}
                  /\ obs.log[1].value * HOURS_PER_ACTION
                        < obs.actions.bonusNum * RandDen

\* C20 witness: a week started with a positive bonus chance, one draw was
\* made for it and it did not grant the extra action.
C20_Witness ==
    /\ obs.ran /\ obs.weekStart
    /\ obs.actions.bonusNum > 0
    /\ Len(obs.log) >= 1
    /\ obs.log[1].kind = "bonus"
    /\ obs.log[1].value * HOURS_PER_ACTION >= obs.actions.bonusNum * RandDen
    /\ obs.input.weekStartActions = obs.actions.guaranteed

\* C21: a weekly effect that declares a cap does not leave its stat above
\* the cap when the stat was below it as the effect's turn came, and leaves
\* the stat unchanged when the stat was then at or over the cap.
C21_CapRespected ==
    \A i \in 1..Len(obs.log) :
        obs.effects[i].hasMax =>
            /\ obs.log[i].before < obs.effects[i].max =>
                  obs.log[i].after <= obs.effects[i].max
            /\ obs.log[i].before >= obs.effects[i].max =>
                  obs.log[i].after = obs.log[i].before

\* C22: ending an active pursuit, by an endPursuit effect or because its
\* exit condition holds at the week's end, leaves it inactive with its
\* exit effects run once (the flag set, the money paid once) and nothing
\* else changed; ending a pursuit that is not active, or checking exit
\* conditions that do not hold, changes nothing.
C22_DeactivateOnce ==
    LET b == obs.before
        Ended(p) ==
            [Execute(Pursuits[p].exitEffects, b)
                EXCEPT !.pursuits[p].active = FALSE]
        Active(p) == p \in PursuitIds /\ b.pursuits[p].present /\ b.pursuits[p].active
        Due == {p \in PursuitIds :
                  /\ Active(p) /\ Pursuits[p].configType = "action"
                  /\ Pursuits[p].exitConditions.defined
                  /\ ConditionCheck(Pursuits[p].exitConditions, b)}
    IN  /\ obs.op = "endPursuit" =>
              IF Active(obs.pursuit)
              THEN /\ state = Ended(obs.pursuit)
                   /\ ~state.pursuits[obs.pursuit].active
                   /\ obs.pursuit = "medium_job" =>
                         /\ "severance" \in state.flags
                         /\ getStat(state, playerId, "money")
                               = getStat(b, playerId, "money") + 10
              ELSE state = b
        /\ obs.op = "checkExitConditions" =>
              /\ Due = {} => state = b
              /\ \A p \in Due :
                    /\ ~state.pursuits[p].active
                    /\ Cardinality(Due) = 1 => state = Ended(p)
                    /\ getStat(state, playerId, "money")
                          = getStat(b, playerId, "money") + 10
              /\ \A p \in PursuitIds \ Due : state.pursuits[p] = b.pursuits[p]

\* C22 witness: an active job whose exit condition held was ended by the
\* week-end check, after a severance had already been paid once before.
C22_Witness ==
    /\ obs.op = "checkExitConditions"
    /\ obs.before.pursuits["medium_job"].active
    /\ "fired" \in obs.before.flags
    /\ "severance" \in obs.before.flags
    /\ ~state.pursuits["medium_job"].active
    /\ getStat(state, playerId, "money") = getStat(obs.before, playerId, "money") + 10

\* C23: the player never holds two objects of one type; after an
\* ensurePossession for type T the player holds exactly one, carrying the
\* state of that execution; if the player held none it is a newly created
\* object, and if the player held one it is that same object, updated, and
\* no object was created.
C23_EnsureIdempotent ==
    /\ \A t \in TemplateTypes :
          Len(getCharacterObjectsOfType(state, playerId, t)) <= 1
    /\ obs.op = "ensurePossession" =>
          LET now == getCharacterObjectsOfType(state, playerId, obs.type)
          IN  /\ Len(now) = 1
              /\ state.objects[now[1]].level = obs.level
              /\ state.objects[now[1]].ownerId = playerId
              /\ IF obs.had = 0
                 THEN now[1] = obs.nextId /\ state.nextId = obs.nextId + 1
                 ELSE now[1] = obs.had /\ state.nextId = obs.nextId

\* C23 witness: an ensurePossession found the object an earlier one had
\* created and changed its state, with a single object in existence.
C23_Witness ==
    /\ obs.op = "ensurePossession"
    /\ obs.had = 1
    /\ obs.level = 5
    /\ state.nextId = 2
    /\ state.objects[1].level = 5
    /\ state.characters[playerId].inventory = <<1>>

\* C27: for every character and every specific skill the looked-up value is
\* the stored value of the parent general skill plus the stored specific
\* value; and modifying or setting a specific skill (to zero too) leaves
\* every stored general value as it was.
C27_SpecificAddsToParent ==
    /\ \A c \in CharIds, s \in SpecificSkills :
          getSkill(state, c, s)
            = state.characters[c].skills.general[SkillDefinitions[s].parent]
              + state.characters[c].skills.specific[s]
    /\ (obs.op \in {"modifySkill", "setSkill"} /\ obs.skill \in SpecificSkills)
          => \A c \in CharIds :
                state.characters[c].skills.general = obs.before[c].general

\* C27 witness: a specific skill that was not zero, on top of a parent that
\* is not zero, has just been set to zero; the lookup gives the parent's
\* value.
C27_Witness ==
    /\ obs.op = "setSkill"
    /\ obs.char = playerId
    /\ obs.skill = "hacking"
    /\ obs.before[playerId].specific["hacking"] = 10
    /\ obs.before[playerId].general["computers"] = 10
    /\ state.characters[playerId].skills.specific["hacking"] = 0
    /\ getSkill(state, playerId, "hacking") = 10

\* C24: the outcome of a check follows the stated precedence: crushing
\* failure if a crush margin is given and total < difficulty - crushMargin;
\* otherwise failure if total < difficulty; otherwise crushing success if a
\* crush margin is given and total >= difficulty + crushMargin; otherwise
\* success.
C24_OutcomePrecedence ==
    (obs.op = "check" /\ obs.result.error = <<>>
        /\ obs.result.outcome # "throws") =>
        LET total == obs.result.playerRoll
            difficulty == obs.result.effectiveDifficulty
            crushMargin == obs.resolved.crushMargin
            given == crushMargin # Undefined
        IN  obs.result.outcome =
              IF given /\ total < difficulty - crushMargin
              THEN "crushingFailure"
              ELSE IF total < difficulty THEN "failure"
              ELSE IF given /\ total >= difficulty + crushMargin
              THEN "crushingSuccess"
              ELSE "success"

\* C25: with difficulty and crush margin fixed, a higher total never gives
\* a lower outcome and a lower total never a higher one, in the order
\* crushing failure < failure < success < crushing success.
C25_OutcomeMonotone ==
    (obs.op = "check" /\ obs.result.error = <<>>
        /\ obs.result.outcome # "throws") =>
        LET total == obs.result.playerRoll
            difficulty == obs.result.effectiveDifficulty
            crushMargin == obs.resolved.crushMargin
            rank == [o \in {"crushingFailure", "failure", "success",
                            "crushingSuccess"} |->
                        CASE o = "crushingFailure" -> 0
                          [] o = "failure" -> 1
                          [] o = "success" -> 2
                          [] OTHER -> 3]
        IN  \A other \in (difficulty - MaxMargin) .. (difficulty + MaxMargin) :
               /\ other >= total =>
                    rank[Outcome(other, difficulty, crushMargin)]
                      >= rank[obs.result.outcome]
               /\ other <= total =>
                    rank[Outcome(other, difficulty, crushMargin)]
                      <= rank[obs.result.outcome]

\* C25 witness: a check with a crush margin ended in a plain failure, so
\* that lower totals in range give a crushing failure and higher ones a
\* success and a crushing success.
C25_Witness ==
    /\ obs.op = "check"
    /\ obs.resolved.crushMargin = 15
    /\ obs.result.outcome = "failure"
    /\ obs.result.playerRoll >= obs.result.effectiveDifficulty - 5

\* C26: for a valid check the effective skill is the skill lookup, plus 100
\* when deep memory is invoked and the player has the skill as a deep skill,
\* 30 when it is invoked without, 0 when it is not invoked, plus the sum of
\* floor(stat * scale) over the bonuses; the total is that plus the roll,
\* and the roll lies between count and count * sides.
C26_EffectiveSkill ==
    (obs.op = "check" /\ obs.result.error = <<>>
        /\ obs.result.outcome # "throws") =>
        LET c == obs.resolved
            deep == IF ~obs.useDeepMemory THEN 0
                    ELSE IF c.skill \in state.characters[playerId].deepSkills
                    THEN 100 ELSE 30
            term == [i \in 1 .. Len(c.bonuses) |->
                        CHOOSE f \in 0 .. 200 :
                           LET x == state.characters[playerId]
                                      .stats[c.bonuses[i].stat]
                                    * c.bonuses[i].num
                           IN  /\ f * c.bonuses[i].den <= x
                               /\ x < (f + 1) * c.bonuses[i].den]
            bonus == IF Len(c.bonuses) = 0 THEN 0
                     ELSE IF Len(c.bonuses) = 1 THEN term[1]
                     ELSE term[1] + term[2]
            dice == parseDice(c.dice)
        IN  /\ obs.result.skillValue
                 = getSkill(state, playerId, c.skill) + deep + bonus
            /\ obs.result.playerRoll
                 = obs.result.skillValue + obs.result.roll
            /\ obs.result.roll >= dice.count
            /\ obs.result.roll <= dice.count * dice.sides

\* C26 witness: deep memory invoked with the deep skill held, two bonuses
\* of which one is rounded down (floor(45 / 2) = 22).
C26_Witness ==
    /\ obs.op = "check"
    /\ obs.useDeepMemory
    /\ "hacking" \in state.characters[playerId].deepSkills
    /\ obs.resolved.skill = "hacking"
    /\ Len(obs.resolved.bonuses) = 2
    /\ state.characters[playerId].stats["health"] = 45
    /\ obs.result.skillValue
         = getSkill(state, playerId, "hacking") + 100 + 22 + 50
    /\ getSkill(state, playerId, "hacking") = 55

\* C28: a check whose reference does not resolve, or whose definition lacks
\* the skill, the dice or the difficulty, does not throw: its outcome is
\* failure and it carries an error; a check that was rolled carries none.
C28_InvalidCheckFails ==
    obs.op = "check" =>
        LET invalid == \/ ~resolveCheck(obs.input).found
                       \/ obs.resolved.skill = None
                       \/ obs.resolved.dice = None
                       \/ obs.resolved.difficulty = Undefined
        IN  /\ obs.result.outcome # "throws"
            /\ invalid => /\ obs.result.outcome = "failure"
                          /\ obs.result.error # <<>>
            /\ ~invalid => obs.result.error = <<>>

\* C28 witness: an inline check without dice came back as a failure naming
\* the missing field.
C28_Witness ==
    /\ obs.op = "check"
    /\ obs.input.kind = "inline"
    /\ obs.input.spec.skill = "hacking"
    /\ obs.input.spec.dice = None
    /\ obs.result.outcome = "failure"
    /\ obs.result.error = <<"Missing required field: dice">>

\* C29: after loading a slot that a save wrote, the state is equal to the
\* state at the moment of that save, and the id counter is the one saved
\* with it, whatever was done to the state in between.
C29_SaveLoadRoundTrip ==
    (obs.last.op = "load" /\ obs.written[obs.last.slot].kind = "save") =>
        /\ state.game = obs.written[obs.last.slot].state
        /\ state.nextId = obs.written[obs.last.slot].nextId

\* C29 witness: a slot saved in week 5 with a flag set, a toggled pursuit
\* and an advanced id counter has been loaded after Game.init() had reset
\* all of them.
C29_Witness ==
    /\ obs.last.op = "load"
    /\ obs.written[obs.last.slot].kind = "save"
    /\ state.game.week = MaxWeek + 3
    /\ "test_flag" \in state.game.flags
    /\ state.game.pursuits["routine1"].enabled
         # InitialState.pursuits["routine1"].enabled
    /\ state.nextId = 3
    /\ \E other \in SlotIds :
          /\ other # obs.last.slot
          /\ obs.written[other].kind = "save"
          /\ obs.written[other].state = InitialState

\* C30: after loading a save that lacks the pursuits, no operation raises:
\* resuming, starting the week, computing the pursuit hours and evaluating
\* conditions treat the pursuits as empty.
C30_OldSaveDoesNotRaise ==
    ~obs.last.raised

\* C31: the id counter rises by one with every created character or
\* object, a load restores the counter saved with the loaded state, every
\* id in use carries a number below the counter, no two ids in use carry
\* the same number, and a created entity never receives an id in use.
C31_IdsNeverReused ==
    /\ \A id \in IdsInUse(state) : id[2] < state.nextId
    /\ \A a, b \in IdsInUse(state) : a[2] = b[2] => a = b
    /\ obs.last.op = "create" =>
          /\ ~obs.last.reused
          /\ state.nextId = obs.last.nextId + 1
          /\ obs.last.id \in IdsInUse(state)
    /\ obs.last.op = "load" => state = obs.saved.state

\* C31 witness: after a save with three entities, Game.init() and a load,
\* a further entity was created and received the next number, not one of
\* the restored ones.
C31_Witness ==
    /\ obs.last.op = "create"
    /\ obs.saved.present
    /\ obs.saved.state.nextId = 4
    /\ obs.last.id = <<"obj", 4>>
    /\ <<"char", 2>> \in state.characters
    /\ <<"obj", 3>> \in state.objects
    /\ state.nextId = 5

\* C32: an accessor or mutator called with a character id or an object id
\* that does not exist does not raise, leaves the state unchanged, and
\* returns a neutral value.
C32_FailSoft ==
    obs.unknown => /\ ~obs.raised
                   /\ ~obs.changed
                   /\ obs.neutral

C34_SkillEffectsApply ==
    obs.op = "execute" =>
        CASE obs.effect.op = "modifySkill" ->
               getSkill(state, playerId, obs.effect.a)
                 = obs.before + obs.effect.b
          [] obs.effect.op = "setSkill" ->
               getSkill(state, playerId, obs.effect.a) = obs.effect.b
          [] obs.effect.op = "addDeepSkill" ->
               hasDeepSkill(state, playerId, obs.effect.a)
          [] OTHER -> TRUE

\* C35: an event that is always eligible (probability 1 or unspecified) has
\* fired at most once in the current week, however many evaluations the
\* week has had while its conditions held.
C35_AlwaysEligibleOncePerWeek ==
    \A e \in {x \in EventIds : \/ Events[x].probability = Undefined
                               \/ Events[x].probability >= RandDen} :
        obs.firedCount[e] <= 1

\* C36: an event whose probability is 0 has not fired in the current week
\* and is not the event the last evaluation fired.
C36_ZeroProbabilityNeverFires ==
    \A e \in {x \in EventIds : Events[x].probability = 0} :
        /\ obs.firedCount[e] = 0
        /\ obs.lastEval.winner # e

\* C37: when play resumes from a save made during a week (the week's start
\* had already been counted for the saved state), the actions remaining do
\* not exceed those of the save and every entry of the saved week's event
\* schedule is kept as it was.
C37_ResumeKeepsWeekState ==
    [][(/\ screen = "pursuitUI"
        /\ screen' = "actions"
        /\ obs.evals.week = state.week)
       => /\ state'.actionsRemaining <= state.actionsRemaining
          /\ \A e \in EventIds :
                state.eventSchedule[e].present =>
                   state'.eventSchedule[e] = state.eventSchedule[e]]_vars

\* C38: in a week, whenever none of the available actions can be afforded
\* with the actions remaining, the end of the week is offered.
C38_EndWeekOfferedWhenStuck ==
    (/\ screen = "actions"
     /\ \A a \in collectAvailableActions(state) : ~Enabled(state, a))
    => EndWeekOffered(state)

\* C39: the week counter changes only at a week end, by exactly one, and
\* the week end opens the save prompt; until the week start that follows,
\* no action is executed; a week start happens only from the pursuit
\* configuration, exactly once for the week just entered, one week after
\* the previous week start; and whenever actions can be executed the week
\* being played is the one last started.
C39_OneWeekStartPerWeekEnd ==
    /\ [](screen = "actions" => obs.evals.week = state.week)
    /\ []((screen \in {"savePrompt", "pursuitUI"}) =>
             obs.evals.week = state.week - 1)
    /\ [][/\ state'.week # state.week =>
                /\ state'.week = state.week + 1
                /\ screen = "actions" /\ screen' = "savePrompt"
                /\ obs'.evals = obs.evals
          /\ obs'.evals # obs.evals =>
                /\ screen = "pursuitUI" /\ screen' = "actions"
                /\ state'.week = state.week
                /\ obs'.evals.week = obs.evals.week + 1
                /\ obs'.evals.budget = 1
          /\ (screen \in {"savePrompt", "pursuitUI"}
                /\ obs'.evals = obs.evals) =>
                /\ screen' \in {"savePrompt", "pursuitUI"}
                /\ state'.actionsRemaining = state.actionsRemaining
                /\ state'.flags = state.flags]_vars

\* C39 witness: two weeks have ended; the third week has been started once,
\* one week after the second, and an action has been executed in it.
C39_Witness ==
    /\ screen = "actions"
    /\ state.week = 3
    /\ obs.evals.week = 3
    /\ obs.evals.budget = 1
    /\ state.actionsRemaining < state.weekStartActions

\* C40: a deactivation never has the same pursuit's deactivation in
\* progress twice, and no execution of exit effects exhausts the call stack.
C40_DeactivationTerminates ==
    /\ ~obs.overflow
    /\ \A i, j \in 1 .. Len(state.stack) :
          state.stack[i].pursuit = state.stack[j].pursuit => i = j

====
